---- MODULE Spec2Model ----
(***************************************************************************)
(* A model of gitt: the changelog generator (changelog_generator.py), and  *)
(* the git queries and the commit tab of the dashboard (gitt_gui.py).      *)
(*                                                                         *)
(* Text is modelled as a sequence of one-character strings, so that split, *)
(* find, strip and lower are computed as Python computes them.  A line of  *)
(* the rendered changelog is the tuple of the pieces its f-string joins.   *)
(* The emoji glyph of a section title is left out of the title string.     *)
(***************************************************************************)
EXTENDS Integers, Sequences, FiniteSets, TLC

VARIABLES
    commits,        \* the commit records handed to the categorizer / renderer
    categorized,    \* the value categorize_commits returned
    changelog,      \* the lines generate_basic_changelog joined with "\n"
    ran,            \* the operations that have returned a value
    raw_commits,    \* the lines handed to parse_commits
    parsed_commits, \* the value parse_commits returned
    git_stdout,     \* the lines of git log's stdout read by get_commit_history
    history,        \* the value get_commit_history returned
    today,          \* the wall clock (datetime.now()) during the run
    args_version,   \* the version label of the last renderer call
    pc,             \* the position of main(), of the tool or of the commit tab
    env,            \* the run's surroundings: .git, the AI package, the key,
                    \* the options of the tool or the widgets of the commit tab
    model,          \* self.model of the ChangelogGenerator
    calls,          \* the external calls made so far, in order
    ai_response,    \* what the last generate_content call did
    result,         \* what the last generate_ai_changelog call did, or the
                    \* commit message of generate_commit_message
    exit_status,    \* how the process ended, and its exit code
    out_file,       \* the content of the output file
    printed,        \* the changelog printed to stdout
    op,             \* the git query of the dashboard that is run
    git_runs,       \* what each git subprocess of the query does, in order
    disk,           \* what os.path.exists and getsize find for each path
    returned,       \* what the query returned
    env_file,       \* the content of the credential file ~/.config/gitt/.env
    saves,          \* the rewrites of a file so far: what was there, what is
    sessions        \* the sessions that update one file at the same time

vars == <<commits, categorized, changelog, ran,
          raw_commits, parsed_commits, git_stdout, history, today,
          args_version, pc, env, model, calls, ai_response, result,
          exit_status, out_file, printed, op, git_runs, disk, returned,
          env_file, saves, sessions>>

\* The credential file, the rewrites of files and the concurrent sessions.
keyVars == <<env_file, saves, sessions>>

\* The state of a git query of the dashboard, and of its files.
guiVars == <<op, git_runs, disk, returned, keyVars>>

\* The state of a run of the command-line tool.
cliVars == <<pc, env, model, calls, ai_response, result, exit_status,
             out_file, printed>>

-----------------------------------------------------------------------------
(* Bounds *)

MaxCommits == 2
MaxLines == 3
MaxSubjectLen == 4
MaxCalls == 2
MaxAuthors == 2
MaxFiles == 21

\* The most lines of git status the commit tab is shown.
MaxShown == 2

\* The most characters of the text area of the commit tab.
MaxMessageLen == 3

-----------------------------------------------------------------------------
(* Generic sequence helpers *)

SeqsUpTo(S, n) == UNION {[1..k -> S] : k \in 0..n}

RECURSIVE SumOver(_, _)
SumOver(f, S) ==
    IF S = {} THEN 0
    ELSE LET x == CHOOSE y \in S : TRUE IN f[x] + SumOver(f, S \ {x})

Count(seq, x) == Cardinality({i \in 1..Len(seq) : seq[i] = x})

-----------------------------------------------------------------------------
(* changelog_generator.py: categorize_commits *)

\* The keys of the categories dict, in the order the dict literal lists them.
CategoryOrder ==
    <<"feat", "fix", "chore", "refactor", "docs", "style", "test", "perf",
      "ci", "build", "revert", "other">>

CategoryKeys == {CategoryOrder[i] : i \in 1..Len(CategoryOrder)}

EmptyCategories == [k \in CategoryKeys |-> <<>>]

\* commit.get('type', 'other')
GetType(commit) ==
    IF "type" \in DOMAIN commit THEN commit.type ELSE "other"

\* Mutant of AppendTo: categories[key].insert(0, commit).
AppendTo_Prepend(categories, key, commit) ==
    [categories EXCEPT ![key] = <<commit>> \o @]

\* categories[key].append(commit)
AppendTo(categories, key, commit) ==
    [categories EXCEPT ![key] = Append(@, commit)]

\* Mutant of PlaceCommit: the else branch is missing, so a commit of an
\* unknown type is placed nowhere.
PlaceCommit_DropUnknown(categories, commit) ==
    LET commit_type == GetType(commit) IN
    IF commit_type \in DOMAIN categories
    THEN AppendTo(categories, commit_type, commit)
    ELSE categories

\* Mutant of PlaceCommit: the type is looked up among the buckets, not among
\* the keys, so the test never succeeds and every commit goes to 'other'.
PlaceCommit_NoRouting(categories, commit) ==
    AppendTo(categories, "other", commit)

\* The body of the for loop: one commit placed into one bucket.
PlaceCommit(categories, commit) ==
    LET commit_type == GetType(commit) IN
    IF commit_type \in DOMAIN categories
    THEN AppendTo(categories, commit_type, commit)
    ELSE AppendTo(categories, "other", commit)

RECURSIVE CategorizeLoop(_, _)
CategorizeLoop(cs, categories) ==
    IF cs = <<>> THEN categories
    ELSE CategorizeLoop(Tail(cs), PlaceCommit(categories, Head(cs)))

categorize_commits(cs) == CategorizeLoop(cs, EmptyCategories)

-----------------------------------------------------------------------------
(* changelog_generator.py: generate_basic_changelog *)

\* No version label was supplied (version=None).
NoVersion == "None"

\* Mutant of TitleOrder: category_titles listed in the order of the
\* categories dict of categorize_commits.
TitleOrder_AsCategories ==
    <<"feat", "fix", "chore", "refactor", "docs", "style", "test", "perf",
      "ci", "build", "revert">>

\* The keys of category_titles, in the order the dict literal lists them.
TitleOrder ==
    <<"feat", "fix", "perf", "refactor", "docs", "style", "test", "chore",
      "ci", "build", "revert">>

category_titles ==
    [k \in {TitleOrder[i] : i \in 1..Len(TitleOrder)} |->
        CASE k = "feat"     -> "### Features"
          [] k = "fix"      -> "### Bug Fixes"
          [] k = "perf"     -> "### Performance"
          [] k = "refactor" -> "### Refactoring"
          [] k = "docs"     -> "### Documentation"
          [] k = "style"    -> "### Style"
          [] k = "test"     -> "### Tests"
          [] k = "chore"    -> "### Chores"
          [] k = "ci"       -> "### CI/CD"
          [] k = "build"    -> "### Build"
          [] k = "revert"   -> "### Reverts"]

OtherTitle == "### Other Changes"

\* Mutant of Truthy: the test is "if version is not None".
Truthy_NotNone(value) == value # NoVersion

\* Python's truth value of an optional string: None and '' are false.
Truthy(value) == value # NoVersion /\ value # ""

\* f"## [{version}] - {date}"  or  f"## Unreleased - {date}"
HeaderLine(version, date) ==
    IF Truthy(version)
    THEN <<"## [", version, "] - ", date>>
    ELSE <<"## Unreleased - ", date>>

BlankLine == <<>>

TitleLine(title) == <<title>>

\* f"- {commit['message']} ([{commit['hash']}]) by {commit['author']}"
BulletLine(commit) ==
    <<"- ", commit.message, " ([", commit.hash, "]) by ", commit.author>>

\* Mutant of BulletLines: the bucket is written out last commit first.
BulletLines_Reversed(cs) ==
    [i \in 1..Len(cs) |-> BulletLine(cs[Len(cs) + 1 - i])]

BulletLines(cs) == [i \in 1..Len(cs) |-> BulletLine(cs[i])]

\* Mutant of Section: the "if commits_in_category" test is missing.
Section_Always(title, commits_in_category) ==
    <<TitleLine(title)>> \o BulletLines(commits_in_category) \o <<BlankLine>>

\* One section: nothing for an empty bucket, else title, bullets, blank line.
Section(title, commits_in_category) ==
    IF commits_in_category # <<>>
    THEN <<TitleLine(title)>> \o BulletLines(commits_in_category)
         \o <<BlankLine>>
    ELSE <<>>

RECURSIVE TitledSections(_, _)
TitledSections(order, cats) ==
    IF order = <<>> THEN <<>>
    ELSE Section(category_titles[Head(order)], cats[Head(order)])
         \o TitledSections(Tail(order), cats)

generate_basic_changelog(cs, version, date) ==
    LET cats == categorize_commits(cs) IN
    <<HeaderLine(version, date), BlankLine>>
    \o TitledSections(TitleOrder, cats)
    \o Section(OtherTitle, cats["other"])

-----------------------------------------------------------------------------
(* The inputs of the categorizer and the renderer *)

Hashes == {"h1", "h2"}

\* type values: the eleven known tags, 'other', an unknown tag, the empty
\* string; a record may also carry no type at all.
TypeValues == CategoryKeys \cup {"weird", ""}

CommitRecords ==
    [hash : Hashes, date : {"2024-01-01"}, author : {"Alice"},
     message : {"add login"}, type : TypeValues]
    \cup
    [hash : Hashes, date : {"2024-01-01"}, author : {"Alice"},
     message : {"add login"}]

\* --version absent, given as '1.2.0', given as the empty string.
Versions == {NoVersion, "1.2.0", ""}

Days == {"2024-05-01", "2024-05-02"}

-----------------------------------------------------------------------------
(* The command-line tool before it is run *)

\* No file at the output path.
NoFile == "no file"

\* The process is still running.
Running == [code |-> 0, by |-> "running"]

NoResult == [raised |-> FALSE, called |-> FALSE, text |-> <<>>]

NoResponse == [kind |-> "none", text |-> <<>>]

\* No query has returned yet.
NotReturned == [raised |-> "", value |-> <<>>]

\* No credential file, nothing rewritten, no session.
KeyIdle ==
    /\ env_file = NoFile
    /\ saves = <<>>
    /\ sessions = <<>>

GuiIdle ==
    /\ op = "none"
    /\ git_runs = <<>>
    /\ disk = <<>>
    /\ returned = NotReturned
    /\ KeyIdle

NoEnv == [git_dir |-> FALSE, GEMINI_AVAILABLE |-> FALSE, GEMINI_API_KEY |-> "None",
          no_ai |-> FALSE, print_only |-> FALSE]

CliIdle ==
    /\ pc = "idle"
    /\ env = NoEnv
    /\ model = "None"
    /\ calls = <<>>
    /\ ai_response = NoResponse
    /\ result = NoResult
    /\ exit_status = Running
    /\ out_file = NoFile
    /\ printed = <<>>

-----------------------------------------------------------------------------
(* Specification of the categorizer and the basic renderer *)

Init ==
    /\ commits \in SeqsUpTo(CommitRecords, MaxCommits)
    /\ categorized = EmptyCategories
    /\ changelog = <<>>
    /\ ran = {}
    /\ raw_commits = <<>>
    /\ parsed_commits = <<>>
    /\ git_stdout = <<>>
    /\ history = <<>>
    /\ today \in Days
    /\ args_version = NoVersion
    /\ CliIdle
    /\ GuiIdle

CategorizeCommits ==
    /\ categorized' = categorize_commits(commits)
    /\ ran' = ran \cup {"categorize_commits"}
    /\ UNCHANGED <<commits, changelog, raw_commits, parsed_commits,
                   git_stdout, history, today, args_version, cliVars, guiVars>>

GenerateBasicChangelog ==
    \E version \in Versions :
        /\ changelog' = generate_basic_changelog(commits, version, today)
        /\ args_version' = version
        /\ ran' = ran \cup {"generate_basic_changelog"}
        /\ UNCHANGED <<commits, categorized, raw_commits, parsed_commits,
                       git_stdout, history, today, cliVars, guiVars>>

Next == CategorizeCommits \/ GenerateBasicChangelog

Spec == Init /\ [][Next]_vars

-----------------------------------------------------------------------------
(* Python's str operations, on text as a sequence of characters.  A          *)
(* character is a one-character string; "Feat" stands for a run of letters   *)
(* that lower() turns into "feat", "D", "t" and "z" for the date, the time   *)
(* and the UTC offset of a timestamp.                                        *)

Whitespace == {" ", "\n", "\t"}

\* s.find(ch): the 0-based index of the first ch, -1 when there is none.
RECURSIVE FindFrom(_, _, _)
FindFrom(s, ch, i) ==
    IF i > Len(s) THEN -1
    ELSE IF s[i] = ch THEN i - 1
    ELSE FindFrom(s, ch, i + 1)

Find(s, ch) == FindFrom(s, ch, 1)

\* s[lo:hi] with 0 <= lo, hi (Python slice, 0-based, hi excluded).
Slice(s, lo, hi) ==
    LET h == IF hi > Len(s) THEN Len(s) ELSE hi
    IN  IF lo >= h THEN <<>> ELSE SubSeq(s, lo + 1, h)

\* s[lo:]
SliceFrom(s, lo) == Slice(s, lo, Len(s))

\* s.startswith(ch)
StartsWith(s, ch) == Len(s) > 0 /\ s[1] = ch

RECURSIVE LStrip(_)
LStrip(s) ==
    IF s # <<>> /\ Head(s) \in Whitespace THEN LStrip(Tail(s)) ELSE s

RECURSIVE RStrip(_)
RStrip(s) ==
    IF s # <<>> /\ s[Len(s)] \in Whitespace
    THEN RStrip(SubSeq(s, 1, Len(s) - 1))
    ELSE s

\* s.strip()
Strip(s) == RStrip(LStrip(s))

LowerChar(c) == IF c = "Feat" THEN "feat" ELSE c

\* s.lower()
Lower(s) == [i \in 1..Len(s) |-> LowerChar(s[i])]

\* s.replace(old, new), for single characters
Replace(s, old, new) == [i \in 1..Len(s) |-> IF s[i] = old THEN new ELSE s[i]]

\* s.split(sep, maxsplit); maxsplit = -1 splits at every sep.
RECURSIVE Split(_, _, _)
Split(s, sep, maxsplit) ==
    LET i == Find(s, sep) IN
    IF maxsplit = 0 \/ i = -1 THEN <<s>>
    ELSE <<Slice(s, 0, i)>> \o Split(SliceFrom(s, i + 1), sep, maxsplit - 1)

\* sep.join(parts)
RECURSIVE Join(_, _)
Join(parts, sep) ==
    IF parts = <<>> THEN <<>>
    ELSE IF Len(parts) = 1 THEN parts[1]
    ELSE parts[1] \o <<sep>> \o Join(Tail(parts), sep)

RECURSIVE Flatten(_)
Flatten(seqs) ==
    IF seqs = <<>> THEN <<>> ELSE Head(seqs) \o Flatten(Tail(seqs))

-----------------------------------------------------------------------------
(* changelog_generator.py: parse_commits *)

OtherType == <<"other">>

\* Mutant of DetectType: message.strip() is applied to every message, not
\* only after a tag was removed.
DetectType_StripAlways(message) ==
    LET end_bracket == Find(message, "]") IN
    IF StartsWith(message, "[") /\ end_bracket > 0
    THEN <<Lower(Slice(message, 1, end_bracket)),
           Strip(SliceFrom(message, end_bracket + 1))>>
    ELSE <<OtherType, Strip(message)>>

\* The tag detection of parse_commits: <<commit_type, message>>.
DetectType(message) ==
    LET end_bracket == Find(message, "]") IN
    IF StartsWith(message, "[") /\ end_bracket > 0
    THEN <<Lower(Slice(message, 1, end_bracket)),
           Strip(SliceFrom(message, end_bracket + 1))>>
    ELSE <<OtherType, message>>

\* Mutant of ParseCommitLine: the fields are unpacked in the order of the
\* long form (hash, author, date, message).
ParseCommitLine_SwapFields(commit) ==
    IF Find(commit, "|") # -1
    THEN LET parts == Split(commit, "|", 3) IN
         IF Len(parts) >= 4
         THEN LET tagged == DetectType(parts[4]) IN
              <<[hash |-> parts[1], date |-> parts[3], author |-> parts[2],
                 message |-> tagged[2], type |-> tagged[1]]>>
         ELSE <<>>
    ELSE <<>>

\* The body of the for loop: the records (none or one) one line appends.
ParseCommitLine(commit) ==
    IF Find(commit, "|") # -1
    THEN LET parts == Split(commit, "|", 3) IN
         IF Len(parts) >= 4
         THEN LET tagged == DetectType(parts[4]) IN
              <<[hash |-> parts[1], date |-> parts[2], author |-> parts[3],
                 message |-> tagged[2], type |-> tagged[1]]>>
         ELSE <<>>
    ELSE <<>>

parse_commits(lines) ==
    Flatten([i \in 1..Len(lines) |-> ParseCommitLine(lines[i])])

-----------------------------------------------------------------------------
(* gitt_gui.py: get_commit_history *)

\* re.match(r'\[([^\]]+)\]', subject): group(1), or <<>> paired with FALSE
\* when there is no match.  The pattern matches when the first ']' exists
\* and at least one character lies between the leading '[' and it.
TypeMatch(subject) ==
    LET e == Find(subject, "]") IN
    IF StartsWith(subject, "[") /\ e >= 2
    THEN [matched |-> TRUE, group1 |-> Slice(subject, 1, e)]
    ELSE [matched |-> FALSE, group1 |-> <<>>]

\* Mutant of HistoryType: the matched tag is not lower-cased.
HistoryType_NoLower(subject) ==
    IF StartsWith(subject, "[") /\ TypeMatch(subject).matched
    THEN TypeMatch(subject).group1
    ELSE OtherType

\* The type inferred by get_commit_history.
HistoryType(subject) ==
    IF StartsWith(subject, "[") /\ TypeMatch(subject).matched
    THEN Lower(TypeMatch(subject).group1)
    ELSE OtherType

\* datetime.fromisoformat.  Every interpreter reads a date, and a date, one
\* separator character and a time.  "z" is a UTC offset as git prints it
\* (+hhmm): an interpreter older than 3.11 rejects it; 3.11 and later
\* (`lenient`) read it, also with one stray character before its sign.
FromIsoFormat(s, lenient) ==
    IF s = <<"D">>
    THEN [ok |-> TRUE, date |-> "D", time |-> "midnight", tzinfo |-> FALSE]
    ELSE IF Len(s) = 3 /\ s[1] = "D" /\ s[3] = "t"
    THEN [ok |-> TRUE, date |-> "D", time |-> "t", tzinfo |-> FALSE]
    ELSE IF lenient /\ Len(s) = 4 /\ s[1] = "D" /\ s[3] = "t" /\ s[4] = "z"
    THEN [ok |-> TRUE, date |-> "D", time |-> "t", tzinfo |-> TRUE]
    ELSE IF lenient /\ Len(s) = 5 /\ s[1] = "D" /\ s[3] = "t" /\ s[5] = "z"
    THEN [ok |-> TRUE, date |-> "D", time |-> "t", tzinfo |-> TRUE]
    ELSE [ok |-> FALSE, date |-> "", time |-> "", tzinfo |-> FALSE]

\* The try/except around the date: the naive timestamp, or now().
ParseDate(date, now, lenient) ==
    LET parsed_date == FromIsoFormat(Replace(date, " ", "T"), lenient) IN
    IF parsed_date.ok
    THEN [parsed_date EXCEPT !.tzinfo = FALSE]
    ELSE [ok |-> FALSE, date |-> now, time |-> "now", tzinfo |-> FALSE]

\* Mutant of HistoryLine: a line with too few fields is not skipped; its
\* missing fields are read as empty.
HistoryLine_PadShort(line, now, lenient) ==
    IF Strip(line) # <<>>
    THEN LET parts == Split(line, "|", 5) \o <<<<>>, <<>>, <<>>, <<>>>> IN
         <<[hash |-> parts[1], author |-> parts[2], email |-> parts[3],
            date |-> ParseDate(parts[4], now, lenient),
            subject |-> parts[5],
            body |-> <<>>,
            type |-> HistoryType(parts[5])]>>
    ELSE <<>>

\* The body of the for loop: the records (none or one) one line appends.
HistoryLine(line, now, lenient) ==
    IF Strip(line) # <<>>
    THEN LET parts == Split(line, "|", 5) IN
         IF Len(parts) >= 5
         THEN <<[hash |-> parts[1], author |-> parts[2], email |-> parts[3],
                 date |-> ParseDate(parts[4], now, lenient),
                 subject |-> parts[5],
                 body |-> IF Len(parts) > 5 THEN parts[6] ELSE <<>>,
                 type |-> HistoryType(parts[5])]>>
         ELSE <<>>
    ELSE <<>>

\* The for loop over the lines of the stripped output.
HistoryLoop(lines, now, lenient) ==
    Flatten([i \in 1..Len(lines) |-> HistoryLine(lines[i], now, lenient)])

\* result.stdout.strip().split('\n')
StdoutLines(stdout) == Split(Strip(stdout), "\n", -1)

\* get_commit_history when git log exits 0 with `stdout`.
get_commit_history(stdout, now, lenient) ==
    HistoryLoop(StdoutLines(stdout), now, lenient)

-----------------------------------------------------------------------------
(* The inputs of the two commit parsers *)

SubjectChars == {"[", "]", " ", "Feat"}

Subjects == SeqsUpTo(SubjectChars, MaxSubjectLen)

\* Lines of the short form hash|date|author|subject around a subject: no
\* delimiter, too few fields, exactly four fields, a delimiter in the subject.
ShortLines(s) ==
    { s,
      Join(<<<<"h">>, <<"D">>, s>>, "|"),
      Join(<<<<"h">>, <<"D">>, <<"Al">>, s>>, "|"),
      Join(<<<<"h">>, <<"D">>, <<"Al">>, s, <<"x">>>>, "|") }

\* Lines of the long form hash|author|email|date|subject|body around a
\* subject: no delimiter, too few fields, five fields, six fields.
LongLines(s) ==
    { s,
      Join(<<<<"h">>, <<"Al">>, <<"@">>, s>>, "|"),
      Join(<<<<"h">>, <<"Al">>, <<"@">>, <<"D", " ", "t">>, s>>, "|"),
      Join(<<<<"h">>, <<"Al">>, <<"@">>, <<"D", " ", "t">>, s, <<"b">>>>, "|") }

\* The date fields git can print, and one that is no date.
DateFields ==
    { <<"D">>, <<"D", " ", "t">>, <<"D", "T", "t", "z">>,
      <<"D", " ", "t", " ", "z">>, <<"x">> }

DatedLines ==
    { Join(<<<<"h">>, <<"Al">>, <<"@">>, d, <<"Feat">>, <<>>>>, "|") :
        d \in DateFields }

FreeShortLines == UNION {ShortLines(s) : s \in Subjects}

FreeLongLines == DatedLines \cup UNION {LongLines(s) : s \in Subjects}

\* The lines of an input of several lines: a tagged commit, an untagged
\* one, a line with too few fields, a line without delimiter, a blank line.
ListShortLines ==
    { Join(<<<<"h">>, <<"D">>, <<"Al">>, <<"[", "Feat", "]", " ", "x">>>>, "|"),
      Join(<<<<"g">>, <<"D">>, <<"Bo">>, <<"x">>>>, "|"),
      Join(<<<<"g">>, <<"D">>>>, "|"),
      <<"x">>,
      <<>> }

\* The same for the long form; the untagged commit has no body field and a
\* subject that ends in a blank, the blank line holds one blank.
ListLongLines ==
    { Join(<<<<"h">>, <<"Al">>, <<"@">>, <<"D", " ", "t", " ", "z">>,
             <<"[", "Feat", "]", " ", "x">>, <<"b">>>>, "|"),
      Join(<<<<"g">>, <<"Bo">>, <<"@">>, <<"D">>, <<"x", " ">>>>, "|"),
      Join(<<<<"g">>, <<"Bo">>>>, "|"),
      <<"x">>,
      <<" ">> }

\* The inputs of a parser: one line around any subject, or up to MaxLines
\* lines of the list lines.
InputLists(F, L) == {<<f>> : f \in F} \cup SeqsUpTo(L, MaxLines)

-----------------------------------------------------------------------------
(* Specification of the two commit parsers *)

\* Either tool is given a list of lines, or both are given the one commit
\* of the same subject.
InitParse ==
    /\ \/ /\ raw_commits = <<>>
          /\ git_stdout \in InputLists(FreeLongLines, ListLongLines)
       \/ /\ raw_commits \in InputLists(FreeShortLines, ListShortLines)
          /\ git_stdout = <<>>
       \/ \E s \in Subjects :
             /\ raw_commits = <<Join(<<<<"h">>, <<"D">>, <<"Al">>, s>>, "|")>>
             /\ git_stdout =
                    <<Join(<<<<"h">>, <<"Al">>, <<"@">>, <<"D", " ", "t">>,
                             s, <<"b">>>>, "|")>>
    /\ parsed_commits = <<>>
    /\ history = <<>>
    /\ ran = {}
    /\ commits = <<>>
    /\ categorized = EmptyCategories
    /\ changelog = <<>>
    /\ today = "2024-05-01"
    /\ args_version = NoVersion
    /\ CliIdle
    /\ GuiIdle

ParseCommits ==
    /\ parsed_commits' = parse_commits(raw_commits)
    /\ ran' = ran \cup {"parse_commits"}
    /\ UNCHANGED <<commits, categorized, changelog, raw_commits, git_stdout,
                   history, today, args_version, cliVars, guiVars>>

\* `lenient`: the interpreter that runs the dashboard is 3.11 or later.
GetCommitHistory ==
    \E lenient \in BOOLEAN :
        /\ history' = get_commit_history(Join(git_stdout, "\n"), today, lenient)
        /\ ran' = ran \cup {"get_commit_history"}
        /\ UNCHANGED <<commits, categorized, changelog, raw_commits,
                       parsed_commits, git_stdout, today, args_version, cliVars,
                       guiVars>>

NextParse == ParseCommits \/ GetCommitHistory

SpecParse == InitParse /\ [][NextParse]_vars

-----------------------------------------------------------------------------
(* changelog_generator.py: the generator's construction and its git query *)

\* ChangelogGenerator.setup_gemini: the value it leaves in self.model.
setup_gemini(api_key) ==
    IF ~Truthy(api_key) THEN "None" ELSE "GenerativeModel"

\* ChangelogGenerator.__init__: the value it leaves in self.model.
Constructor(e) ==
    IF e.GEMINI_AVAILABLE THEN setup_gemini(e.GEMINI_API_KEY) ELSE "None"

\* What subprocess.run(cmd, capture_output=True, text=True, check=True)
\* does: the command exits 0 and its stdout is returned, it exits non-zero
\* (CalledProcessError), or it cannot be started (FileNotFoundError).
GitRunKinds == {"exit 0", "exit non-zero", "not started"}

\* get_git_commits: the list it returns, or the exception that leaves it.
get_git_commits(run) ==
    IF run.kind = "exit 0"
    THEN [raised |-> "",
          value |-> IF Strip(run.stdout) # <<>>
                    THEN Split(Strip(run.stdout), "\n", -1)
                    ELSE <<>>]
    ELSE IF run.kind = "exit non-zero"
    THEN [raised |-> "", value |-> <<>>]
    ELSE [raised |-> "FileNotFoundError", value |-> <<>>]

-----------------------------------------------------------------------------
(* changelog_generator.py: generate_ai_changelog *)

\* What an external call gave: "failed" (git exited non-zero or could not be
\* started, the request raised or its response holds no text), "nothing"
\* (empty output) or "output".
RunOutcome(run) ==
    IF run.kind # "exit 0" THEN "failed"
    ELSE IF run.stdout = <<>> THEN "nothing"
    ELSE "output"

AiOutcome(response) ==
    IF response.kind # "text" THEN "failed"
    ELSE IF response.text = <<>> THEN "nothing"
    ELSE "output"

\* An external call: the place that invoked the operation, the operation
\* that makes the call, the command (or the request) it issues, and what
\* the call gave.
Call(at, by, cmd, outcome) ==
    [at |-> at, by |-> by, cmd |-> cmd, outcome |-> outcome]

\* A rewrite of a file: who did it, with what, what was there before and
\* what is there now.
Save(by, with, before, after, ok) ==
    [by |-> by, with |-> with, before |-> before, after |-> after, ok |-> ok]

AiCall(at, response) ==
    Call(at, "generate_ai_changelog", "generate_content", AiOutcome(response))

NoCommitsText == <<<<"No commits found for the specified period.">>>>

\* Mutant of generate_ai_changelog: the try has no except clause.
generate_ai_changelog_NoExcept(cs, version, date, self_model, response) ==
    IF cs = <<>>
    THEN [raised |-> FALSE, called |-> FALSE, text |-> NoCommitsText]
    ELSE IF self_model = "None"
    THEN [raised |-> FALSE, called |-> FALSE,
          text |-> generate_basic_changelog(cs, version, date)]
    ELSE IF \E i \in 1..Len(cs) : "type" \notin DOMAIN cs[i]
    THEN [raised |-> TRUE, called |-> FALSE, text |-> <<>>]
    ELSE IF response.kind = "text"
    THEN [raised |-> FALSE, called |-> TRUE, text |-> <<Strip(response.text)>>]
    ELSE [raised |-> TRUE, called |-> TRUE, text |-> <<>>]

\* generate_ai_changelog: whether an exception leaves it, whether it called
\* generate_content, and the text it returns.  commit['type'] is read while
\* the prompt is built, outside the try.
generate_ai_changelog(cs, version, date, self_model, response) ==
    IF cs = <<>>
    THEN [raised |-> FALSE, called |-> FALSE, text |-> NoCommitsText]
    ELSE IF self_model = "None"
    THEN [raised |-> FALSE, called |-> FALSE,
          text |-> generate_basic_changelog(cs, version, date)]
    ELSE IF \E i \in 1..Len(cs) : "type" \notin DOMAIN cs[i]
    THEN [raised |-> TRUE, called |-> FALSE, text |-> <<>>]
    ELSE IF response.kind = "text"
    THEN [raised |-> FALSE, called |-> TRUE, text |-> <<Strip(response.text)>>]
    ELSE [raised |-> FALSE, called |-> TRUE,
          text |-> generate_basic_changelog(cs, version, date)]

\* What self.model.generate_content(prompt) and reading response.text do:
\* the call raises, the response holds no readable text (reading .text
\* raises), or a text is returned: one with blanks around it, an empty one.
AiResponses ==
    { [kind |-> "raises", text |-> <<>>],
      [kind |-> "malformed", text |-> <<>>],
      [kind |-> "text", text |-> <<" ", "x", "\n">>],
      [kind |-> "text", text |-> <<>>] }

\* The commit lists generate_ai_changelog is called with.
AiCommitRecords == {c \in CommitRecords : GetType(c) \in {"feat", "weird", "other"}}

-----------------------------------------------------------------------------
(* Specification of generate_ai_changelog, called on its own *)

InitAI ==
    /\ commits \in SeqsUpTo(AiCommitRecords, MaxCommits)
    /\ model \in {"None", "GenerativeModel"}
    /\ categorized = EmptyCategories
    /\ changelog = <<>>
    /\ ran = {}
    /\ raw_commits = <<>>
    /\ parsed_commits = <<>>
    /\ git_stdout = <<>>
    /\ history = <<>>
    /\ today = "2024-05-01"
    /\ args_version = NoVersion
    /\ pc = "idle"
    /\ env = NoEnv
    /\ calls = <<>>
    /\ ai_response = NoResponse
    /\ result = NoResult
    /\ exit_status = Running
    /\ out_file = NoFile
    /\ printed = <<>>
    /\ GuiIdle

GenerateAiChangelog ==
    \E version \in Versions, response \in AiResponses :
        LET got == generate_ai_changelog(commits, version, today, model,
                                         response)
        IN  /\ result' = got
            /\ args_version' = version
            /\ ai_response' = IF got.called THEN response ELSE NoResponse
            /\ calls' = IF got.called
                        THEN Append(calls, AiCall("caller", response))
                        ELSE calls
            /\ changelog' = IF got.raised THEN changelog ELSE got.text
            /\ ran' = ran \cup {"generate_ai_changelog"}
            /\ Len(calls) < MaxCalls
            /\ UNCHANGED <<commits, categorized, raw_commits, parsed_commits,
                           git_stdout, history, today, pc, env, model,
                           exit_status, out_file, printed, guiVars>>

NextAI == GenerateAiChangelog

SpecAI == InitAI /\ [][NextAI]_vars

-----------------------------------------------------------------------------
(* changelog_generator.py: save_changelog and main *)

\* What opening and writing the output file do: both succeed, the file
\* cannot be opened, or it is opened (and emptied) and the write fails.
WriteOutcomes == {"written", "open fails", "write fails"}

\* f.read() of a file opened with open(path, 'r'): a carriage return, and a
\* carriage return with the newline after it, are read as one newline.
ReadText(lines) ==
    Flatten([i \in 1..Len(lines) |->
                LET parts == Split(lines[i], "\r", -1) IN
                IF i < Len(lines) /\ Len(parts) > 1 /\ parts[Len(parts)] = <<>>
                THEN SubSeq(parts, 1, Len(parts) - 1)
                ELSE parts])

\* save_changelog(content, output_file, append): its return value and the
\* file it leaves.  A text is the list of its lines, so the empty text is
\* one empty line and a + '\n\n' + b is a, an empty line, b.
save_changelog(content, existing, append, io) ==
    IF io = "written"
    THEN [saved |-> TRUE,
          file |-> IF append /\ existing # NoFile
                   THEN content \o <<BlankLine>> \o ReadText(existing)
                   ELSE content]
    ELSE IF io = "open fails"
    THEN [saved |-> FALSE, file |-> existing]
    ELSE [saved |-> FALSE, file |-> <<BlankLine>>]

\* The str a sequence of characters stands for.
RECURSIVE TextOf(_)
TextOf(chars) == IF chars = <<>> THEN "" ELSE Head(chars) \o TextOf(Tail(chars))

\* The records of parse_commits with their type as the str the categorizer
\* looks up.
StrTypes(records) ==
    [i \in 1..Len(records) |-> [records[i] EXCEPT !.type = TextOf(@)]]

\* Mutant of UseBasic: --no-ai is not looked at.
UseBasic_IgnoreNoAi(e) ==
    ~e.GEMINI_AVAILABLE \/ ~Truthy(e.GEMINI_API_KEY)

\* args.no_ai or not GEMINI_AVAILABLE or not os.getenv('GEMINI_API_KEY')
UseBasic(e) ==
    e.no_ai \/ ~e.GEMINI_AVAILABLE \/ ~Truthy(e.GEMINI_API_KEY)

\* The lines of the output of git log --pretty=format:%h|%ad|%an|%s: lines
\* of four fields, and a line with too few fields (parse_commits skips it).
CliLines ==
    { Join(<<<<"h">>, <<"D">>, <<"Al">>, <<"[", "Feat", "]", " ", "x">>>>, "|"),
      Join(<<<<"g">>, <<"D">>, <<"Bo">>, <<"x">>>>, "|"),
      <<"x">> }

\* The runs of git log: it prints up to MaxLines lines (and the newline
\* after the last one, or nothing at all), fails, or cannot be started.
GitRuns ==
    { [kind |-> "exit 0", stdout |-> Join(ls, "\n") \o <<"\n">>] :
          ls \in SeqsUpTo(CliLines, MaxLines) }
    \cup { [kind |-> k, stdout |-> <<>>] : k \in GitRunKinds }

Environments ==
    [git_dir : BOOLEAN, GEMINI_AVAILABLE : BOOLEAN,
     GEMINI_API_KEY : {"None", "", "key"}, no_ai : BOOLEAN,
     print_only : BOOLEAN]

\* The preview main prints after a save: the first lines of the changelog.
PreviewLines == 10

Preview(lines) ==
    IF Len(lines) > PreviewLines
    THEN SubSeq(lines, 1, PreviewLines) \o <<<<"... (truncated)">>>>
    ELSE lines

\* sys.exit(code), the return of main, or an exception nobody catches (the
\* interpreter prints the traceback and exits with 1).
Exit(code, by) ==
    /\ exit_status' = [code |-> code, by |-> by]
    /\ pc' = "exited"

-----------------------------------------------------------------------------
(* Specification of a run of the changelog tool, with a valid command line *)

InitMain ==
    /\ pc = "main"
    /\ env \in Environments
    /\ out_file \in {NoFile, <<<<"# Changelog">>>>}
    /\ model = "None"
    /\ calls = <<>>
    /\ ai_response = NoResponse
    /\ result = NoResult
    /\ exit_status = Running
    /\ printed = <<>>
    /\ commits = <<>>
    /\ categorized = EmptyCategories
    /\ changelog = <<>>
    /\ ran = {}
    /\ raw_commits = <<>>
    /\ parsed_commits = <<>>
    /\ git_stdout = <<>>
    /\ history = <<>>
    /\ today = "2024-05-01"
    /\ args_version = NoVersion
    /\ GuiIdle

\* if not os.path.exists('.git'): sys.exit(1)
CheckRepository ==
    /\ pc = "main"
    /\ IF ~env.git_dir
       THEN Exit(1, "sys.exit")
       ELSE pc' = "construct" /\ UNCHANGED exit_status
    /\ UNCHANGED <<commits, categorized, changelog, ran, raw_commits,
                   parsed_commits, git_stdout, history, today, args_version,
                   env, model, calls, ai_response, result, out_file, printed,
                   guiVars>>

\* generator = ChangelogGenerator()
Construct ==
    /\ pc = "construct"
    /\ model' = Constructor(env)
    /\ pc' = "get_git_commits"
    /\ UNCHANGED <<commits, categorized, changelog, ran, raw_commits,
                   parsed_commits, git_stdout, history, today, args_version,
                   env, calls, ai_response, result, exit_status, out_file,
                   printed, guiVars>>

\* commits = generator.get_git_commits(...); if not commits: return
GetGitCommits ==
    /\ pc = "get_git_commits"
    /\ \E run \in GitRuns :
           LET got == get_git_commits(run) IN
           /\ calls' = Append(calls, Call("main", "get_git_commits", "git log",
                                          RunOutcome(run)))
           /\ git_stdout' = run.stdout
           /\ raw_commits' = got.value
           /\ IF got.raised # ""
              THEN Exit(1, got.raised)
              ELSE IF got.value = <<>>
              THEN Exit(0, "return")
              ELSE pc' = "parse_commits" /\ UNCHANGED exit_status
    /\ UNCHANGED <<commits, categorized, changelog, ran, parsed_commits,
                   history, today, args_version, env, model, ai_response,
                   result, out_file, printed, guiVars>>

\* parsed_commits = generator.parse_commits(commits)
MainParseCommits ==
    /\ pc = "parse_commits"
    /\ parsed_commits' = StrTypes(parse_commits(raw_commits))
    /\ pc' = "generate"
    /\ UNCHANGED <<commits, categorized, changelog, ran, raw_commits,
                   git_stdout, history, today, args_version, env, model,
                   calls, ai_response, result, exit_status, out_file, printed,
                   guiVars>>

\* The if/else that makes the changelog, basic or AI.
Generate ==
    /\ pc = "generate"
    /\ \E version \in Versions :
           /\ args_version' = version
           /\ IF UseBasic(env)
              THEN /\ changelog' =
                          generate_basic_changelog(parsed_commits, version, today)
                   /\ pc' = "output"
                   /\ UNCHANGED <<calls, ai_response, result, exit_status>>
              ELSE \E response \in AiResponses :
                       LET got == generate_ai_changelog(parsed_commits, version,
                                                        today, model, response)
                       IN  /\ result' = got
                           /\ ai_response' =
                                  IF got.called THEN response ELSE NoResponse
                           /\ calls' =
                                  IF got.called
                                  THEN Append(calls, AiCall("main", response))
                                  ELSE calls
                           /\ IF got.raised
                              THEN Exit(1, "KeyError") /\ UNCHANGED changelog
                              ELSE /\ changelog' = got.text
                                   /\ pc' = "output"
                                   /\ UNCHANGED exit_status
    /\ UNCHANGED <<commits, categorized, ran, raw_commits, parsed_commits,
                   git_stdout, history, today, env, model, out_file, printed,
                   guiVars>>

\* print(changelog) under --print-only, else save_changelog; main returns.
Output ==
    /\ pc = "output"
    /\ IF env.print_only
       THEN printed' = changelog /\ UNCHANGED <<out_file, saves>>
       ELSE \E io \in WriteOutcomes :
                LET save == save_changelog(changelog, out_file, TRUE, io) IN
                /\ out_file' = save.file
                /\ saves' = Append(saves, Save("main", changelog, out_file,
                                              save.file, save.saved))
                /\ printed' = IF save.saved THEN Preview(changelog) ELSE printed
    /\ Exit(0, "return")
    /\ UNCHANGED <<commits, categorized, changelog, ran, raw_commits,
                   parsed_commits, git_stdout, history, today, args_version,
                   env, model, calls, ai_response, result, op, git_runs, disk,
                   returned, env_file, sessions>>

NextMain ==
    \/ CheckRepository
    \/ Construct
    \/ GetGitCommits
    \/ MainParseCommits
    \/ Generate
    \/ Output

SpecMain == InitMain /\ [][NextMain]_vars

-----------------------------------------------------------------------------
(* gitt_gui.py: the git queries of GitHelper *)

\* What a query returns: the exception that leaves it ("" for none), its
\* value, and the commands it has run.
Returns(value, cmds) == [raised |-> "", value |-> value, cmds |-> cmds]

\* Mutant of Failed: the CalledProcessError is raised again.
Failed_Reraise(run, caught, cmds) ==
    IF run.kind = "exit non-zero"
    THEN [raised |-> "CalledProcessError", value |-> <<>>, cmds |-> cmds]
    ELSE IF caught = "Exception"
    THEN Returns(<<>>, cmds)
    ELSE [raised |-> "FileNotFoundError", value |-> <<>>, cmds |-> cmds]

\* The outer except clause of a query for a run that did not exit 0: the
\* clause names CalledProcessError or Exception, and returns [] or "".
Failed(run, caught, cmds) ==
    IF run.kind = "exit non-zero" \/ caught = "Exception"
    THEN Returns(<<>>, cmds)
    ELSE [raised |-> "FileNotFoundError", value |-> <<>>, cmds |-> cmds]

\* One entry of get_git_status: line[:2] and line[3:].
StatusEntry(line) ==
    [status |-> Slice(line, 0, 2), filename |-> SliceFrom(line, 3)]

get_git_status(run) ==
    LET cmds == <<"git status --porcelain">>
        lines == StdoutLines(run.stdout)
    IN  IF run.kind = "exit 0"
        THEN Returns(Flatten([i \in 1..Len(lines) |->
                                 IF Strip(lines[i]) # <<>>
                                 THEN <<StatusEntry(lines[i])>>
                                 ELSE <<>>]), cmds)
        ELSE Failed(run, "CalledProcessError", cmds)

\* files=None, and the ["."] of "Add all changes".
NoFiles == <<>>

AllFiles == <<<<".">>>>

\* The paths of a command line, each after a blank.
RECURSIVE Paths(_)
Paths(files) ==
    IF files = <<>> THEN ""
    ELSE " " \o TextOf(Head(files)) \o Paths(Tail(files))

\* if files and files != ["."]: cmd.append('--'); cmd.extend(files)
PathArgs(files) ==
    IF files # NoFiles /\ files # AllFiles THEN " --" \o Paths(files) ELSE ""

\* Mutant of StagedElseUnstaged: the staged command is tried again when it
\* prints nothing.
StagedElseUnstaged_Retry(runs, staged, unstaged) ==
    IF runs[1].kind # "exit 0"
    THEN [raised |-> IF runs[1].kind = "exit non-zero" THEN ""
                     ELSE "FileNotFoundError",
          value |-> <<>>, cmds |-> <<staged>>]
    ELSE IF runs[1].stdout # <<>>
    THEN [raised |-> "", value |-> runs[1].stdout, cmds |-> <<staged>>]
    ELSE [raised |-> IF runs[2].kind = "not started" THEN "FileNotFoundError"
                     ELSE "",
          value |-> runs[2].stdout, cmds |-> <<staged, staged>>]

\* The staged command and, when it prints nothing, the unstaged one.
StagedElseUnstaged(runs, staged, unstaged) ==
    IF runs[1].kind # "exit 0"
    THEN Failed(runs[1], "CalledProcessError", <<staged>>)
    ELSE IF runs[1].stdout # <<>>
    THEN Returns(runs[1].stdout, <<staged>>)
    ELSE IF runs[2].kind # "exit 0"
    THEN Failed(runs[2], "CalledProcessError", <<staged, unstaged>>)
    ELSE Returns(runs[2].stdout, <<staged, unstaged>>)

get_git_diff(files, runs) ==
    StagedElseUnstaged(runs, "git diff --cached" \o PathArgs(files),
                       "git diff" \o PathArgs(files))

get_file_stats(files, runs) ==
    StagedElseUnstaged(runs, "git diff --stat --cached" \o PathArgs(files),
                       "git diff --stat" \o PathArgs(files))

\* get_commit_history around its parse of git log's stdout.
CommitHistoryQuery(run, now, lenient) ==
    LET cmds == <<"git log --pretty=format:%H|%an|%ae|%ad|%s|%b">> IN
    IF run.kind = "exit 0"
    THEN Returns(get_commit_history(run.stdout, now, lenient), cmds)
    ELSE Failed(run, "Exception", cmds)

\* Mutant of BranchLine: a line whose date cannot be read is skipped.
BranchLine_SkipBadDate(line, now, lenient) ==
    IF Strip(line) # <<>>
    THEN LET parts == Split(line, "|", 3) IN
         IF Len(parts) >= 4 /\ ParseDate(parts[2], now, lenient).ok
         THEN <<[name |-> parts[1],
                 last_commit_date |-> ParseDate(parts[2], now, lenient),
                 last_author |-> parts[3],
                 last_subject |-> parts[4],
                 is_remote |-> StartsWith(parts[1], "origin/")]>>
         ELSE <<>>
    ELSE <<>>

\* The body of get_branch_info's loop: the records (none or one) of a line.
BranchLine(line, now, lenient) ==
    IF Strip(line) # <<>>
    THEN LET parts == Split(line, "|", 3) IN
         IF Len(parts) >= 4
         THEN <<[name |-> parts[1],
                 last_commit_date |-> ParseDate(parts[2], now, lenient),
                 last_author |-> parts[3],
                 last_subject |-> parts[4],
                 is_remote |-> StartsWith(parts[1], "origin/")]>>
         ELSE <<>>
    ELSE <<>>

get_branch_info(run, now, lenient) ==
    LET cmds == <<"git for-each-ref">>
        lines == StdoutLines(run.stdout)
    IN  IF run.kind = "exit 0"
        THEN Returns(Flatten([i \in 1..Len(lines) |->
                                 BranchLine(lines[i], now, lenient)]), cmds)
        ELSE Failed(run, "Exception", cmds)

-----------------------------------------------------------------------------
(* gitt_gui.py: get_author_stats *)

Numerals == {"0", "1", "2", "3", "4", "5", "6", "7", "8", "9"}

DigitValue(c) ==
    CASE c = "0" -> 0 [] c = "1" -> 1 [] c = "2" -> 2 [] c = "3" -> 3
      [] c = "4" -> 4 [] c = "5" -> 5 [] c = "6" -> 6 [] c = "7" -> 7
      [] c = "8" -> 8 [] c = "9" -> 9

\* str.isdigit()
IsDigit(s) == s # <<>> /\ \A i \in 1..Len(s) : s[i] \in Numerals

\* int(s), for a string int() accepts.
RECURSIVE IntOf(_)
IntOf(s) ==
    IF s = <<>> THEN 0
    ELSE IntOf(SubSeq(s, 1, Len(s) - 1)) * 10 + DigitValue(s[Len(s)])

\* The (count, author) pairs of git shortlog's lines.
ShortlogEntries(lines) ==
    Flatten([i \in 1..Len(lines) |->
                IF Strip(lines[i]) # <<>>
                THEN LET parts == Split(Strip(lines[i]), "\t", 1) IN
                     IF Len(parts) = 2
                     THEN <<[count |-> parts[1], author |-> parts[2]]>>
                     ELSE <<>>
                ELSE <<>>])

\* The sum of column `col` (1 added, 2 removed) over the numstat lines both
\* of whose counts are numbers.
RECURSIVE NumstatSum(_, _)
NumstatSum(lines, col) ==
    IF lines = <<>> THEN 0
    ELSE LET line == Head(lines)
             parts == Split(line, "\t", -1)
         IN  (IF /\ Strip(line) # <<>>
                 /\ Find(line, "\t") # -1
                 /\ Len(parts) >= 2
                 /\ IsDigit(parts[1])
                 /\ IsDigit(parts[2])
              THEN IntOf(parts[col])
              ELSE 0) + NumstatSum(Tail(lines), col)

\* The inner try of the per-author loop: the sums, or 0 and 0 when git log
\* fails in any way (a bare except).
AuthorLines(run) ==
    IF run.kind = "exit 0"
    THEN [added |-> NumstatSum(StdoutLines(run.stdout), 1),
          removed |-> NumstatSum(StdoutLines(run.stdout), 2)]
    ELSE [added |-> 0, removed |-> 0]

\* runs[1] is git shortlog, runs[1 + i] the git log of the i-th author.
get_author_stats(runs) ==
    LET shortlog == "git shortlog -sn --all"
        entries == ShortlogEntries(StdoutLines(runs[1].stdout))
        cmds == <<shortlog>> \o
                [i \in 1..Len(entries) |->
                    "git log --author=" \o TextOf(entries[i].author)]
    IN  IF runs[1].kind # "exit 0"
        THEN Failed(runs[1], "Exception", <<shortlog>>)
        ELSE IF \E i \in 1..Len(entries) : ~IsDigit(Strip(entries[i].count))
        THEN Returns(<<>>, <<shortlog>>)
        ELSE Returns([i \in 1..Len(entries) |->
                         [author |-> entries[i].author,
                          commits |-> IntOf(Strip(entries[i].count)),
                          lines_added |-> AuthorLines(runs[1 + i]).added,
                          lines_removed |-> AuthorLines(runs[1 + i]).removed]],
                     cmds)

-----------------------------------------------------------------------------
(* gitt_gui.py: get_file_change_stats *)

\* most_common(20)
TopFiles == 20

\* The stripped non-blank lines of git log --name-only.
ChangedNames(lines) ==
    Flatten([i \in 1..Len(lines) |->
                IF Strip(lines[i]) # <<>> THEN <<Strip(lines[i])>> ELSE <<>>])

\* The keys of the Counter, in the order they were first counted.
RECURSIVE Distinct(_)
Distinct(seq) ==
    IF seq = <<>> THEN <<>>
    ELSE <<Head(seq)>>
         \o Distinct(SelectSeq(Tail(seq), LAMBDA x : x # Head(seq)))

\* The items of the Counter.
Counted(names) ==
    LET keys == Distinct(names) IN
    [i \in 1..Len(keys) |->
        [filename |-> keys[i], changes |-> Count(names, keys[i])]]

\* Mutant of SortDesc: the items stay in the order they were counted.
SortDesc_Unsorted(items) == items

\* sorted(items, key=count, reverse=True): stable, ties keep their order.
RECURSIVE SortDesc(_)
SortDesc(items) ==
    IF items = <<>> THEN <<>>
    ELSE LET i == CHOOSE j \in 1..Len(items) :
                      /\ \A k \in 1..Len(items) :
                             items[k].changes <= items[j].changes
                      /\ \A k \in 1..(j - 1) :
                             items[k].changes < items[j].changes
         IN  <<items[i]>>
             \o SortDesc(SubSeq(items, 1, i - 1)
                         \o SubSeq(items, i + 1, Len(items)))

\* Counter.most_common(n)
most_common(items, n) == Slice(SortDesc(items), 0, n)

\* The body of the loop over the top files: an entry with its size when the
\* path exists, an entry of size 0 when getsize raises, nothing when the
\* path does not exist.
FileEntry(item, found) ==
    IF found.kind = "file"
    THEN <<[filename |-> item.filename, changes |-> item.changes,
            size_bytes |-> found.size]>>
    ELSE IF found.kind = "error"
    THEN <<[filename |-> item.filename, changes |-> item.changes,
            size_bytes |-> 0]>>
    ELSE <<>>

get_file_change_stats(run, found) ==
    LET cmds == <<"git log --name-only --pretty=format:">>
        top == most_common(Counted(ChangedNames(StdoutLines(run.stdout))),
                           TopFiles)
    IN  IF run.kind = "exit 0"
        THEN Returns(Flatten([i \in 1..Len(top) |->
                                 FileEntry(top[i], found[top[i].filename])]),
                     cmds)
        ELSE Failed(run, "Exception", cmds)

-----------------------------------------------------------------------------
(* The inputs of the git queries *)

\* A command that exits non-zero or cannot be started prints nothing.
FailedRuns == {[kind |-> k, stdout |-> <<>>] : k \in GitRunKinds \ {"exit 0"}}

\* The runs of a command that prints one of `texts` when it exits 0.
RunsOf(texts) == {[kind |-> "exit 0", stdout |-> t] : t \in texts} \cup FailedRuns

\* The sequences over S without a repeated element, up to length n.
DistinctSeqs(S, n) ==
    {q \in SeqsUpTo(S, n) : \A i, j \in 1..Len(q) : i # j => q[i] # q[j]}

\* The text of `lines`, each ended by a newline.
Printed(lines) == Flatten([i \in 1..Len(lines) |-> lines[i] \o <<"\n">>])

\* git status --porcelain: modified in the work tree, untracked, added.
StatusLines ==
    { <<" ", "M", " ", "a">>, <<"?", "?", " ", "b">>, <<"A", " ", " ", "c">> }

StatusRuns == RunsOf({Printed(ls) : ls \in DistinctSeqs(StatusLines, 2)})

\* git diff prints nothing or a diff.
DiffRuns == RunsOf({<<>>, <<"d", "\n">>})

\* git log of get_commit_history: a date no interpreter reads, a date every
\* interpreter reads, git's iso date.
HistoryLines ==
    { Join(<<<<"h">>, <<"Al">>, <<"@">>, <<"x">>, <<"Feat">>, <<>>>>, "|"),
      Join(<<<<"g">>, <<"Bo">>, <<"@">>, <<"D">>, <<"x">>, <<>>>>, "|"),
      Join(<<<<"i">>, <<"Al">>, <<"@">>, <<"D", " ", "t", " ", "z">>,
             <<"x">>, <<>>>>, "|") }

HistoryRuns == RunsOf({Join(ls, "\n") : ls \in SeqsUpTo(HistoryLines, MaxLines)})

\* git for-each-ref: the same three dates, a local and a remote branch.
BranchLines ==
    { Join(<<<<"m">>, <<"x">>, <<"Al">>, <<"Feat">>>>, "|"),
      Join(<<<<"origin/", "m">>, <<"D">>, <<"Bo">>, <<"x">>>>, "|"),
      Join(<<<<"d">>, <<"D", " ", "t", " ", "z">>, <<"Al">>, <<"x">>>>, "|") }

BranchRuns == RunsOf({Printed(ls) : ls \in SeqsUpTo(BranchLines, MaxLines)})

\* git shortlog -sn --all: a count, a tab, an author; each author once.
ShortlogLines ==
    { <<" ", "2", "\t", "Al">>, <<" ", "1", "3", "\t", "Bo">> }

ShortlogRuns ==
    RunsOf({Printed(ls) : ls \in DistinctSeqs(ShortlogLines, MaxAuthors)})

\* git log --numstat of one author: nothing, or a text file and a binary one.
NumstatRuns ==
    RunsOf({ <<>>,
             Printed(<<<<"3", "\t", "1", "\t", "f">>, <<"-", "\t", "-", "\t", "g">>,
                       <<"1", "2", "\t", "0", "\t", "h">>>>) })

AuthorStatsRuns ==
    {<<r>> \o q : r \in ShortlogRuns, q \in [1..MaxAuthors -> NumstatRuns]}

\* The name of the i-th file.
FileName(i) == <<"f" \o ToString(i)>>

\* How often git log names the i-th file: once, or one to three times.
TimesNamed(i, shape) == IF shape = "once" THEN 1 ELSE (i % 3) + 1

\* git log --name-only of three commits over n files: the names of a
\* commit's files, an empty line between two commits.
NameOnlyLog(n, shape) ==
    LET names(r) == Flatten([i \in 1..n |->
                                IF TimesNamed(i, shape) >= r
                                THEN <<FileName(i)>> ELSE <<>>])
    IN  Join(names(1) \o <<<<>>>> \o names(2) \o <<<<>>>> \o names(3), "\n")

NameOnlyRuns ==
    RunsOf({NameOnlyLog(n, shape) : n \in 0..MaxFiles, shape \in {"once", "more"}})

\* What is at the paths now: every file there, none, or every third path
\* gone and every third one unreadable.
Disks ==
    { [i \in 1..MaxFiles |-> [kind |-> "file", size |-> i]],
      [i \in 1..MaxFiles |-> [kind |-> "missing", size |-> 0]],
      [i \in 1..MaxFiles |->
          CASE i % 3 = 0 -> [kind |-> "missing", size |-> 0]
            [] i % 3 = 1 -> [kind |-> "error", size |-> 0]
            [] OTHER -> [kind |-> "file", size |-> i]] }

\* os.path.exists / os.path.getsize on a path, given the disk.
Found(d) ==
    [name \in {FileName(i) : i \in 1..MaxFiles} |->
        d[CHOOSE i \in 1..MaxFiles : FileName(i) = name]]

-----------------------------------------------------------------------------
(* Specification of the git queries, each run once on the runs it is given *)

InitGit ==
    /\ \/ op = "get_git_commits" /\ \E r \in GitRuns : git_runs = <<r>>
       \/ op = "get_git_status" /\ \E r \in StatusRuns : git_runs = <<r>>
       \/ op \in {"get_git_diff", "get_file_stats"}
              /\ git_runs \in [1..2 -> DiffRuns]
       \/ op = "get_commit_history" /\ \E r \in HistoryRuns : git_runs = <<r>>
       \/ op = "get_branch_info" /\ \E r \in BranchRuns : git_runs = <<r>>
       \/ op = "get_author_stats" /\ git_runs \in AuthorStatsRuns
       \/ op = "get_file_change_stats"
              /\ \E r \in NameOnlyRuns : git_runs = <<r>>
    /\ IF op = "get_file_change_stats" THEN disk \in Disks ELSE disk = <<>>
    /\ returned = NotReturned
    /\ CliIdle
    /\ commits = <<>>
    /\ categorized = EmptyCategories
    /\ changelog = <<>>
    /\ ran = {}
    /\ raw_commits = <<>>
    /\ parsed_commits = <<>>
    /\ git_stdout = <<>>
    /\ history = <<>>
    /\ today = "2024-05-01"
    /\ args_version = NoVersion
    /\ KeyIdle

\* The query `name` returns `r`, having run the commands r.cmds.
Answer(name, r) ==
    /\ op = name
    /\ name \notin ran
    /\ returned' = [raised |-> r.raised, value |-> r.value]
    /\ calls' = [i \in 1..Len(r.cmds) |->
                     Call("caller", name, r.cmds[i], RunOutcome(git_runs[i]))]
    /\ ran' = ran \cup {name}
    /\ UNCHANGED <<commits, categorized, changelog, raw_commits,
                   parsed_commits, git_stdout, history, today, args_version,
                   pc, env, model, ai_response, result, exit_status,
                   out_file, printed, op, git_runs, disk, keyVars>>

QueryGitCommits ==
    Answer("get_git_commits",
           [raised |-> get_git_commits(git_runs[1]).raised,
            value |-> get_git_commits(git_runs[1]).value,
            cmds |-> <<"git log">>])

QueryGitStatus == Answer("get_git_status", get_git_status(git_runs[1]))

QueryGitDiff == Answer("get_git_diff", get_git_diff(NoFiles, git_runs))

QueryFileStats == Answer("get_file_stats", get_file_stats(NoFiles, git_runs))

QueryCommitHistory ==
    \E lenient \in BOOLEAN :
        Answer("get_commit_history",
               CommitHistoryQuery(git_runs[1], today, lenient))

QueryBranchInfo ==
    \E lenient \in BOOLEAN :
        Answer("get_branch_info", get_branch_info(git_runs[1], today, lenient))

QueryAuthorStats == Answer("get_author_stats", get_author_stats(git_runs))

QueryFileChangeStats ==
    Answer("get_file_change_stats",
           get_file_change_stats(git_runs[1], Found(disk)))

NextGit ==
    \/ QueryGitCommits
    \/ QueryGitStatus
    \/ QueryGitDiff
    \/ QueryFileStats
    \/ QueryCommitHistory
    \/ QueryBranchInfo
    \/ QueryAuthorStats
    \/ QueryFileChangeStats

SpecGit == InitGit /\ [][NextGit]_vars

-----------------------------------------------------------------------------
(* get_author_stats on a repository: what git prints for its commits *)

\* The decimal digits of a count below 100.
Digits(n) ==
    IF n < 10 THEN <<ToString(n)>> ELSE <<ToString(n \div 10), ToString(n % 10)>>

\* pattern occurs in text: git's --author=<pattern> is a search in the
\* author of a commit (the names here hold no regex operator).
Contains(text, pattern) ==
    \E i \in 1..(Len(text) - Len(pattern) + 1) :
        SubSeq(text, i, i + Len(pattern) - 1) = pattern

\* git shortlog -sn --all: one line per author name, the count first, the
\* larger counts first.
git_shortlog(repo) ==
    LET items == SortDesc(Counted([i \in 1..Len(repo) |-> repo[i].author]))
    IN  [kind |-> "exit 0",
         stdout |-> Printed([i \in 1..Len(items) |->
                                <<" ">> \o Digits(items[i].changes) \o <<"\t">>
                                    \o items[i].filename])]

\* git log --author=<pattern> --pretty=tformat: --numstat: the numstat line
\* of every commit whose author the pattern is found in.
git_log_author(repo, pattern) ==
    LET found == SelectSeq(repo, LAMBDA c : Contains(c.author, pattern))
    IN  [kind |-> "exit 0",
         stdout |-> Printed([i \in 1..Len(found) |->
                                Digits(found[i].added) \o <<"\t">>
                                    \o Digits(found[i].removed) \o <<"\t", "f">>])]

\* The runs get_author_stats sees in a repository: git shortlog, then git
\* log for each author of its lines.
RunsIn(repo) ==
    LET entries == ShortlogEntries(StdoutLines(git_shortlog(repo).stdout))
    IN  <<git_shortlog(repo)>>
            \o [i \in 1..Len(entries) |-> git_log_author(repo, entries[i].author)]

\* The commits of a repository: Al, Alice and Bo; lines added and removed.
RepoCommits ==
    [author : {<<"Al">>, <<"Al", "i", "c", "e">>, <<"Bo">>},
     added : {1, 2, 3}, removed : {0}]
        \cup [author : {<<"Al">>, <<"Bo">>}, added : {0}, removed : {2}]

InitRepo ==
    /\ commits \in SeqsUpTo(RepoCommits, MaxCommits)
    /\ op = "get_author_stats"
    /\ git_runs = RunsIn(commits)
    /\ disk = <<>>
    /\ returned = NotReturned
    /\ CliIdle
    /\ categorized = EmptyCategories
    /\ changelog = <<>>
    /\ ran = {}
    /\ raw_commits = <<>>
    /\ parsed_commits = <<>>
    /\ git_stdout = <<>>
    /\ history = <<>>
    /\ today = "2024-05-01"
    /\ args_version = NoVersion
    /\ KeyIdle

NextRepo == QueryAuthorStats

SpecRepo == InitRepo /\ [][NextRepo]_vars

-----------------------------------------------------------------------------
(* gitt_gui.py: the operations behind "Generate AI Commit Message" *)

\* subprocess.run(['git', 'add', ...], check=True): True, or False when git
\* exits non-zero.
add_files(files, run) ==
    LET cmds == <<"git add" \o Paths(files)>> IN
    IF run.kind = "exit 0" THEN Returns(TRUE, cmds)
    ELSE IF run.kind = "exit non-zero" THEN Returns(FALSE, cmds)
    ELSE [raised |-> "FileNotFoundError", value |-> FALSE, cmds |-> cmds]

get_recent_commits_context(run) ==
    LET cmds == <<"git log --oneline -5">> IN
    IF run.kind = "exit 0"
    THEN Returns(Strip(run.stdout), cmds)
    ELSE Failed(run, "CalledProcessError", cmds)

\* The non-blank lines of a text.
NonBlankLines(text) ==
    LET lines == StdoutLines(text) IN
    Flatten([i \in 1..Len(lines) |->
                IF Strip(lines[i]) # <<>> THEN <<lines[i]>> ELSE <<>>])

\* The status lines get_file_changes_summary goes through: those of the
\* given files, or all of them for files=None and ["."].
SummaryLines(files, stdout) ==
    LET lines == NonBlankLines(stdout)
        all_files == Flatten([i \in 1..Len(lines) |->
                                 IF \E k \in 1..Len(files) :
                                        files[k] = SliceFrom(lines[i], 3)
                                 THEN <<lines[i]>>
                                 ELSE <<>>])
    IN  IF files # NoFiles /\ files # AllFiles
        THEN NonBlankLines(Join(all_files, "\n"))
        ELSE NonBlankLines(stdout)

ChangeType(status) ==
    CASE status = <<"A", " ">> -> "Added"
      [] status \in {<<"M", " ">>, <<" ", "M">>} -> "Modified"
      [] status = <<"D", " ">> -> "Deleted"
      [] status = <<"R", " ">> -> "Renamed"
      [] status = <<"?", "?">> -> "New file"
      [] OTHER -> "Changed"

ErrorDiff == <<"(Error getting diff)">>

\* The diff of one file of the summary: nothing is run for an untracked
\* file; the unstaged diff is run when the staged one exits non-zero or
\* prints nothing; a command that cannot be started ends the attempt.
FileDiff(status, filename, runs) ==
    LET staged == "git diff --cached --" \o Paths(<<filename>>)
        unstaged == "git diff --" \o Paths(<<filename>>)
    IN  IF Strip(status) = <<>> \/ status[1] = "?"
        THEN [cmds |-> <<>>, used |-> <<>>, diff |-> <<>>]
        ELSE IF runs[1].kind = "not started"
        THEN [cmds |-> <<staged>>, used |-> <<runs[1]>>, diff |-> ErrorDiff]
        ELSE IF runs[1].kind = "exit 0" /\ runs[1].stdout # <<>>
        THEN [cmds |-> <<staged>>, used |-> <<runs[1]>>,
              diff |-> runs[1].stdout]
        ELSE [cmds |-> <<staged, unstaged>>, used |-> <<runs[1], runs[2]>>,
              diff |-> IF runs[2].kind = "not started" THEN ErrorDiff
                       ELSE IF runs[2].kind = "exit 0" THEN runs[2].stdout
                       ELSE <<>>]

\* The summary and the runs it used, in the order of its commands; diffs[i]
\* holds the runs of the diff commands of the i-th line.
get_file_changes_summary(files, run, diffs) ==
    LET status_cmd == "git status --porcelain"
        lines == SummaryLines(files, run.stdout)
        per == [i \in 1..Len(lines) |->
                   FileDiff(Slice(lines[i], 0, 2), SliceFrom(lines[i], 3),
                            diffs[i])]
    IN  IF run.kind # "exit 0"
        THEN [raised |-> Failed(run, "CalledProcessError", <<>>).raised,
              value |-> <<>>, cmds |-> <<status_cmd>>, used |-> <<run>>]
        ELSE [raised |-> "",
              value |-> [i \in 1..Len(lines) |->
                            [filename |-> SliceFrom(lines[i], 3),
                             type |-> ChangeType(Slice(lines[i], 0, 2)),
                             diff |-> per[i].diff]],
              cmds |-> <<status_cmd>>
                           \o Flatten([i \in 1..Len(lines) |-> per[i].cmds]),
              used |-> <<run>>
                           \o Flatten([i \in 1..Len(lines) |-> per[i].used])]

\* response.text.strip(), or the message of the except clause.
ErrorMessage == <<<<"Error generating message">>>>

CommitMessage(response) ==
    IF response.kind = "text" THEN <<Strip(response.text)>> ELSE ErrorMessage

-----------------------------------------------------------------------------
(* Specification of one run of the commit tab *)

\* The runs of git status --porcelain in the tab: up to MaxShown files.
TabStatusRuns == RunsOf({Printed(ls) : ls \in DistinctSeqs(StatusLines, MaxShown)})

\* The AI switch of the tab and the "Show Diff Preview" checkbox.
Tabs ==
    [GEMINI_AVAILABLE : BOOLEAN, GEMINI_API_KEY : {"None", "", "key"},
     show_diff_preview : BOOLEAN, selected_files : {NoFiles}]

\* The files the checkboxes can select: none, one of the listed files, or
\* "Add all changes".
Selections(files) ==
    {NoFiles, AllFiles} \cup {<<files[i].filename>> : i \in 1..Len(files)}

\* ai_available = GEMINI_AVAILABLE and os.getenv('GEMINI_API_KEY')
ai_available(e) == e.GEMINI_AVAILABLE /\ e.GEMINI_API_KEY \notin {"None", ""}

\* The calls of an invocation: at, by, its commands and what each gave.
Issued(at, by, cmds, used) ==
    [i \in 1..Len(cmds) |-> Call(at, by, cmds[i], RunOutcome(used[i]))]

InitTab ==
    /\ pc = "script"
    /\ env \in Tabs
    /\ calls = <<>>
    /\ returned = NotReturned
    /\ result = NoResult
    /\ ai_response = NoResponse
    /\ model = "None"
    /\ exit_status = Running
    /\ out_file = NoFile
    /\ printed = <<>>
    /\ op = "none"
    /\ git_runs = <<>>
    /\ disk = <<>>
    /\ commits = <<>>
    /\ categorized = EmptyCategories
    /\ changelog = <<>>
    /\ ran = {}
    /\ raw_commits = <<>>
    /\ parsed_commits = <<>>
    /\ git_stdout = <<>>
    /\ history = <<>>
    /\ today = "2024-05-01"
    /\ args_version = NoVersion
    /\ KeyIdle

\* An operation invoked at `at` returns r, having used the runs `used`; an
\* exception it lets through ends the script run.
Invoke(at, by, r, used, next) ==
    /\ calls' = calls \o Issued(at, by, r.cmds, used)
    /\ returned' = [raised |-> r.raised, value |-> r.value]
    /\ pc' = IF r.raised # "" THEN "crashed" ELSE next
    /\ UNCHANGED <<commits, categorized, changelog, ran, raw_commits,
                   parsed_commits, git_stdout, history, today, args_version,
                   model, exit_status, out_file, printed, op, git_runs, disk, keyVars>>

\* files = git_helper.get_git_status(); if not files: return. The
\* checkboxes then give selected_files.
TabGetStatus ==
    /\ pc = "script"
    /\ \E run \in TabStatusRuns :
           LET r == get_git_status(run) IN
           /\ Invoke("763", "get_git_status", r, <<run>>,
                     IF r.value = <<>> THEN "rendered" ELSE "button")
           /\ \E sel \in IF r.value = <<>> THEN {NoFiles}
                           ELSE Selections(r.value) :
                  env' = [env EXCEPT !.selected_files = sel]
    /\ UNCHANGED <<result, ai_response>>

\* The button, disabled without AI: if selected_files, add_files.
ClickGenerate ==
    /\ pc = "button"
    /\ IF ~ai_available(env) \/ env.selected_files = NoFiles
       THEN /\ pc' = "preview"
            /\ UNCHANGED <<calls, returned, commits, categorized, changelog,
                           ran, raw_commits, parsed_commits, git_stdout,
                           history, today, args_version, model, exit_status,
                           out_file, printed, op, git_runs, disk, keyVars>>
       ELSE \E run \in FailedRuns \cup {[kind |-> "exit 0", stdout |-> <<>>]} :
                LET r == add_files(env.selected_files, run) IN
                Invoke("828", "add_files", r, <<run>>,
                       IF r.value THEN "get_git_diff" ELSE "preview")
    /\ UNCHANGED <<env, result, ai_response>>

\* diff_content = git_helper.get_git_diff(); if diff_content: ...
TabGetDiff ==
    /\ pc = "get_git_diff"
    /\ \E runs \in [1..2 -> DiffRuns] :
           LET r == get_git_diff(NoFiles, runs) IN
           Invoke("829", "get_git_diff", r, runs,
                  IF r.value = <<>> THEN "preview"
                  ELSE "get_file_changes_summary")
    /\ UNCHANGED <<env, result, ai_response>>

\* An exception inside generate_commit_message is caught by its except
\* clause: the message is the error text and the script goes on.
Within(at, by, r, used, next) ==
    /\ calls' = calls \o Issued(at, by, r.cmds, used)
    /\ returned' = [raised |-> r.raised, value |-> r.value]
    /\ IF r.raised # ""
       THEN /\ pc' = "preview"
            /\ result' = [raised |-> FALSE, called |-> FALSE,
                          text |-> ErrorMessage]
       ELSE /\ pc' = next
            /\ UNCHANGED result
    /\ UNCHANGED <<commits, categorized, changelog, ran, raw_commits,
                   parsed_commits, git_stdout, history, today, args_version,
                   model, exit_status, out_file, printed, op, git_runs, disk, keyVars,
                   env, ai_response>>

\* generate_commit_message: file_changes = self.get_file_changes_summary(...)
SummarizeChanges ==
    /\ pc = "get_file_changes_summary"
    /\ \E run \in TabStatusRuns :
           \E diffs \in [1..Len(SummaryLines(env.selected_files, run.stdout))
                            -> [1..2 -> DiffRuns]] :
               LET r == get_file_changes_summary(env.selected_files, run,
                                                 diffs)
               IN  Within("239", "get_file_changes_summary", r, r.used,
                          "get_file_stats")

\* generate_commit_message: file_stats = self.get_file_stats(selected_files)
TabFileStats ==
    /\ pc = "get_file_stats"
    /\ \E runs \in [1..2 -> DiffRuns] :
           Within("240", "get_file_stats",
                  get_file_stats(env.selected_files, runs), runs,
                  "get_recent_commits_context")

\* generate_commit_message: recent_commits = self.get_recent_commits_context()
RecentCommits ==
    /\ pc = "get_recent_commits_context"
    /\ \E run \in DiffRuns :
           Within("241", "get_recent_commits_context",
                  get_recent_commits_context(run), <<run>>, "generate_content")

\* generate_commit_message: response = model.generate_content(prompt);
\* st.session_state.ai_message is what it returns.
GenerateContent ==
    /\ pc = "generate_content"
    /\ \E response \in AiResponses :
           /\ calls' = Append(calls, Call("831", "generate_commit_message",
                                          "generate_content",
                                          AiOutcome(response)))
           /\ ai_response' = response
           /\ result' = [raised |-> FALSE, called |-> TRUE,
                         text |-> CommitMessage(response)]
    /\ pc' = "preview"
    /\ UNCHANGED <<commits, categorized, changelog, ran, raw_commits,
                   parsed_commits, git_stdout, history, today, args_version,
                   model, exit_status, out_file, printed, op, git_runs, disk, keyVars,
                   env, returned>>

\* if selected_files and st.checkbox("Show Diff Preview"): get_git_diff(...)
ShowDiffPreview ==
    /\ pc = "preview"
    /\ IF env.selected_files # NoFiles /\ env.show_diff_preview
       THEN \E runs \in [1..2 -> DiffRuns] :
                Invoke("945", "get_git_diff",
                       get_git_diff(IF env.selected_files # AllFiles
                                    THEN env.selected_files ELSE NoFiles,
                                    runs),
                       runs, "rendered")
       ELSE /\ pc' = "rendered"
            /\ UNCHANGED <<calls, returned, commits, categorized, changelog,
                           ran, raw_commits, parsed_commits, git_stdout,
                           history, today, args_version, model, exit_status,
                           out_file, printed, op, git_runs, disk, keyVars>>
    /\ UNCHANGED <<env, result, ai_response>>

NextTab ==
    \/ TabGetStatus
    \/ ClickGenerate
    \/ TabGetDiff
    \/ SummarizeChanges
    \/ TabFileStats
    \/ RecentCommits
    \/ GenerateContent
    \/ ShowDiffPreview

\* A run of the changelog tool, a run of the commit tab, or a git query of
\* the dashboard.
InitAction == InitMain \/ InitTab \/ InitGit

NextAction == NextMain \/ NextTab \/ NextGit

SpecAction == InitAction /\ [][NextAction]_vars

-----------------------------------------------------------------------------
(* gitt_gui.py: the "Save Key" button *)

KeyName == "GEMINI_API_KEY="

\* re.sub(r'GEMINI_API_KEY=.*', 'GEMINI_API_KEY=' + key, content): every
\* occurrence of the name, wherever it stands in a line, and the rest of
\* its line are replaced (the keys here hold no backslash).
RECURSIVE ReSubKey(_, _)
ReSubKey(content, key) ==
    IF content = <<>> THEN <<>>
    ELSE IF Head(content) = KeyName
    THEN LET rest == Tail(content)
             eol == Find(rest, "\n")
         IN  <<KeyName>> \o key
                 \o (IF eol = -1 THEN <<>>
                     ELSE ReSubKey(SliceFrom(rest, eol), key))
    ELSE <<Head(content)>> \o ReSubKey(Tail(content), key)

\* The new content of the credential file for the stripped key.
UpdateKey(key, existing) ==
    LET env_content == IF existing = NoFile THEN <<>> ELSE existing IN
    IF Contains(env_content, <<KeyName>>)
    THEN ReSubKey(env_content, key)
    ELSE env_content \o <<"\n", KeyName>> \o key \o <<"\n">>

\* open(env_file, 'w') and f.write(env_content): the file afterwards.
Written(content, existing, io) ==
    IF io = "written" THEN content
    ELSE IF io = "open fails" THEN existing
    ELSE <<>>

\* The lines of the credential file: the key, a key whose name ends in the
\* key's name, another key.
EnvLines ==
    { <<KeyName, "k0">>, <<"MY_", KeyName, "v">>, <<"OTHER=", "v">> }

\* The credential files that are there: the last line with or without its
\* newline.
EnvFiles ==
    {<<"OTHER=", "v">>} \cup {Printed(ls) : ls \in DistinctSeqs(EnvLines, MaxLines)}

\* What is typed in the key field.
KeyInputs == { <<"k1">>, <<" ", "k2", "\n">>, <<" ">>, <<>> }

InitKey ==
    /\ env_file = NoFile \/ env_file \in EnvFiles
    /\ saves = <<>>
    /\ sessions = <<>>
    /\ op = "none"
    /\ git_runs = <<>>
    /\ disk = <<>>
    /\ returned = NotReturned
    /\ CliIdle
    /\ commits = <<>>
    /\ categorized = EmptyCategories
    /\ changelog = <<>>
    /\ ran = {}
    /\ raw_commits = <<>>
    /\ parsed_commits = <<>>
    /\ git_stdout = <<>>
    /\ history = <<>>
    /\ today = "2024-05-01"
    /\ args_version = NoVersion

\* if st.button("Save Key"): if api_key_input.strip(): ... f.write(env_content)
ClickSaveKey ==
    /\ Len(saves) < MaxCalls
    /\ \E api_key_input \in KeyInputs, io \in WriteOutcomes :
           LET key == Strip(api_key_input)
               after == Written(UpdateKey(key, env_file), env_file, io)
           IN  IF key = <<>>
               THEN UNCHANGED <<env_file, saves>>
               ELSE /\ env_file' = after
                    /\ saves' = Append(saves, Save("Save Key", key, env_file,
                                                   after, io = "written"))
    /\ UNCHANGED <<commits, categorized, changelog, ran, raw_commits,
                   parsed_commits, git_stdout, history, today, args_version,
                   cliVars, op, git_runs, disk, returned, sessions>>

NextKey == ClickSaveKey

SpecKey == InitKey /\ [][NextKey]_vars

-----------------------------------------------------------------------------
(* Specification of repeated calls of save_changelog on one path *)

\* The contents saved: a line, two lines ended by "\r\n" and "\n", two
\* lines, the empty text.
SaveContents ==
    { <<<<"a">>>>, <<<<"b", "\r">>, <<"c">>>>, <<<<"d">>, <<"e">>>>, <<<<>>>> }

InitSave ==
    /\ out_file = NoFile \/ out_file \in SaveContents
    /\ saves = <<>>
    /\ env_file = NoFile
    /\ sessions = <<>>
    /\ op = "none"
    /\ git_runs = <<>>
    /\ disk = <<>>
    /\ returned = NotReturned
    /\ pc = "idle"
    /\ env = NoEnv
    /\ model = "None"
    /\ calls = <<>>
    /\ ai_response = NoResponse
    /\ result = NoResult
    /\ exit_status = Running
    /\ printed = <<>>
    /\ commits = <<>>
    /\ categorized = EmptyCategories
    /\ changelog = <<>>
    /\ ran = {}
    /\ raw_commits = <<>>
    /\ parsed_commits = <<>>
    /\ git_stdout = <<>>
    /\ history = <<>>
    /\ today = "2024-05-01"
    /\ args_version = NoVersion

\* generator.save_changelog(content, path, append)
SaveChangelog ==
    /\ Len(saves) < MaxCalls
    /\ \E content \in SaveContents, append \in BOOLEAN, io \in WriteOutcomes :
           LET save == save_changelog(content, out_file, append, io) IN
           /\ out_file' = save.file
           /\ saves' = Append(saves,
                              Save(IF append THEN "append" ELSE "overwrite",
                                   content, out_file, save.file, save.saved))
    /\ UNCHANGED <<commits, categorized, changelog, ran, raw_commits,
                   parsed_commits, git_stdout, history, today, args_version,
                   pc, env, model, calls, ai_response, result, exit_status,
                   printed, op, git_runs, disk, returned, env_file, sessions>>

NextSave == SaveChangelog

SpecSave == InitSave /\ [][NextSave]_vars

-----------------------------------------------------------------------------
(* Two sessions that update one existing file at the same time *)

Sessions == {1, 2}

\* An emptied file: no line but the empty one for a changelog, no character
\* for the credential file.
Emptied(kind) == IF kind = "save_changelog" THEN <<BlankLine>> ELSE <<>>

\* What f.read() gives a session.
ReadBy(kind, file) == IF kind = "save_changelog" THEN ReadText(file) ELSE file

\* Mutant of Rewritten: what was read is left out.
Rewritten_WithoutRead(kind, with, read) ==
    IF kind = "save_changelog" THEN with ELSE <<"\n", KeyName>> \o with \o <<"\n">>

\* What a session writes: content + '\n\n' + existing_content, or the
\* credential file with the key.
Rewritten(kind, with, read) ==
    IF kind = "save_changelog"
    THEN with \o <<BlankLine>> \o read
    ELSE UpdateKey(with, read)

\* The two updates: two entries prepended to a changelog, or two keys saved.
SessionInputs ==
    { [kind |-> "save_changelog", original |-> <<<<"d">>, <<"e">>>>,
       with |-> <<<<<<"a">>>>, <<<<"b">>>>>>],
      [kind |-> "save_changelog", original |-> <<<<>>>>,
       with |-> <<<<<<"a">>>>, <<<<"b">>, <<"c">>>>>>],
      [kind |-> "Save Key", original |-> Printed(<<<<KeyName, "k0">>>>),
       with |-> <<<<"k1">>, <<"k2">>>>],
      [kind |-> "Save Key", original |-> Printed(<<<<"OTHER=", "v">>>>),
       with |-> <<<<"k1">>, <<"k2">>>>],
      [kind |-> "Save Key",
       original |-> Printed(<<<<"OTHER=", "v">>, <<KeyName, "k0">>>>),
       with |-> <<<<"k1">>, <<"k2">>>>] }

InitSessions ==
    /\ \E i \in SessionInputs :
           /\ sessions = [kind |-> i.kind, original |-> i.original,
                          of |-> [s \in Sessions |->
                                     [pc |-> "read", with |-> i.with[s],
                                      read |-> <<>>]]]
           /\ IF i.kind = "save_changelog"
              THEN out_file = i.original /\ env_file = NoFile
              ELSE env_file = i.original /\ out_file = NoFile
    /\ saves = <<>>
    /\ op = "none"
    /\ git_runs = <<>>
    /\ disk = <<>>
    /\ returned = NotReturned
    /\ pc = "idle"
    /\ env = NoEnv
    /\ model = "None"
    /\ calls = <<>>
    /\ ai_response = NoResponse
    /\ result = NoResult
    /\ exit_status = Running
    /\ printed = <<>>
    /\ commits = <<>>
    /\ categorized = EmptyCategories
    /\ changelog = <<>>
    /\ ran = {}
    /\ raw_commits = <<>>
    /\ parsed_commits = <<>>
    /\ git_stdout = <<>>
    /\ history = <<>>
    /\ today = "2024-05-01"
    /\ args_version = NoVersion

\* The file the sessions update.
SharedFile == IF sessions.kind = "save_changelog" THEN out_file ELSE env_file

\* A step of session s that leaves the file `file` and the session at `at`.
SessionStep(s, file, at) ==
    /\ sessions' = [sessions EXCEPT !.of[s] = at]
    /\ IF sessions.kind = "save_changelog"
       THEN out_file' = file /\ UNCHANGED env_file
       ELSE env_file' = file /\ UNCHANGED out_file
    /\ UNCHANGED <<commits, categorized, changelog, ran, raw_commits,
                   parsed_commits, git_stdout, history, today, args_version,
                   pc, env, model, calls, ai_response, result, exit_status,
                   printed, op, git_runs, disk, returned>>

\* with open(path, 'r') as f: existing = f.read()
SessionRead ==
    \E s \in Sessions :
        /\ sessions.of[s].pc = "read"
        /\ SessionStep(s, SharedFile,
                       [sessions.of[s] EXCEPT
                            !.pc = "open",
                            !.read = ReadBy(sessions.kind, SharedFile)])
        /\ UNCHANGED saves

\* open(path, 'w'): the file is emptied.  A session opens the file while no
\* other session has it open for writing (the other interleavings are left
\* out).
SessionOpen ==
    \E s \in Sessions :
        /\ sessions.of[s].pc = "open"
        /\ \A t \in Sessions : sessions.of[t].pc # "write"
        /\ SessionStep(s, Emptied(sessions.kind),
                       [sessions.of[s] EXCEPT !.pc = "write"])
        /\ UNCHANGED saves

\* f.write(...) and the close of the file.
SessionWrite ==
    \E s \in Sessions :
        /\ sessions.of[s].pc = "write"
        /\ LET after == Rewritten(sessions.kind, sessions.of[s].with,
                                  sessions.of[s].read)
           IN  /\ SessionStep(s, after, [sessions.of[s] EXCEPT !.pc = "done"])
               /\ saves' = Append(saves, Save(s, sessions.of[s].with,
                                              SharedFile, after, TRUE))

NextSessions ==
    \/ SessionRead
    \/ SessionOpen
    \/ SessionWrite

SpecSessions == InitSessions /\ [][NextSessions]_vars

-----------------------------------------------------------------------------
(* gitt_gui.py: the "Commit Changes" button *)

\* Mutant of commit: a failed git commit is reported as a success.
commit_IgnoreFailure(message, run) ==
    LET cmds == <<"git commit -m " \o TextOf(message)>> IN
    IF run.kind \in {"exit 0", "exit non-zero"} THEN Returns(TRUE, cmds)
    ELSE [raised |-> "FileNotFoundError", value |-> FALSE, cmds |-> cmds]

\* GitHelper.commit
commit(message, run) ==
    LET cmds == <<"git commit -m " \o TextOf(message)>> IN
    IF run.kind = "exit 0" THEN Returns(TRUE, cmds)
    ELSE IF run.kind = "exit non-zero" THEN Returns(FALSE, cmds)
    ELSE [raised |-> "FileNotFoundError", value |-> FALSE, cmds |-> cmds]

\* Mutant of FinalMessage: a message that has a prefix gets the tag as well.
FinalMessage_AlwaysTag(commit_type, commit_message) ==
    IF commit_type = "none" THEN commit_message
    ELSE <<"[", commit_type, "]", " ">> \o commit_message

\* The message the button commits: f"[{commit_type}] {commit_message}",
\* unless no type is selected or the message already has a prefix.
FinalMessage(commit_type, commit_message) ==
    IF commit_type = "none" THEN commit_message
    ELSE IF StartsWith(Strip(commit_message), "[")
            /\ Find(commit_message, "]") # -1
    THEN commit_message
    ELSE <<"[", commit_type, "]", " ">> \o commit_message

MessageChars == {"[", "]", " ", "x", "\n"}

\* What is in the text area.
Messages == SeqsUpTo(MessageChars, MaxMessageLen)

\* The tab when the button is clicked: the selection, the selected type,
\* the text area, its default (the stored AI message) and the stored AI
\* message.
CommitTabs ==
    { t \in [selected_files : {NoFiles, AllFiles, <<<<"a">>>>, <<<<"a">>, <<"b">>>>},
             commit_type : {"none", "feat", "fix"},
             commit_message : Messages,
             default_message : {<<>>, <<"x">>},
             ai_message : {<<>>, <<"x">>}] :
        t.ai_message = t.default_message }

\* git add and git commit print to the terminal: nothing is captured.
CommandRuns == FailedRuns \cup {[kind |-> "exit 0", stdout |-> <<>>]}

InitCommit ==
    /\ pc = "button"
    /\ env \in CommitTabs
    /\ calls = <<>>
    /\ returned = NotReturned
    /\ result = NoResult
    /\ ai_response = NoResponse
    /\ model = "None"
    /\ exit_status = Running
    /\ out_file = NoFile
    /\ printed = <<>>
    /\ op = "none"
    /\ git_runs = <<>>
    /\ disk = <<>>
    /\ commits = <<>>
    /\ categorized = EmptyCategories
    /\ changelog = <<>>
    /\ ran = {}
    /\ raw_commits = <<>>
    /\ parsed_commits = <<>>
    /\ git_stdout = <<>>
    /\ history = <<>>
    /\ today = "2024-05-01"
    /\ args_version = NoVersion
    /\ KeyIdle

\* if st.button("Commit Changes"): the two checks, add_files, the final
\* message, commit, and the clearing of the stored AI message.
ClickCommit ==
    /\ pc = "button"
    /\ IF env.selected_files = NoFiles
       THEN /\ pc' = "Please select files to commit"
            /\ UNCHANGED <<calls, env, commits>>
       ELSE IF Strip(env.commit_message) = <<>>
       THEN /\ pc' = "Please enter a commit message"
            /\ UNCHANGED <<calls, env, commits>>
       ELSE \E a \in CommandRuns :
           LET added == add_files(env.selected_files, a)
               add_calls == Issued("914", "add_files", added.cmds, <<a>>)
               final_message == FinalMessage(env.commit_type, env.commit_message)
           IN  IF added.raised # ""
               THEN /\ pc' = "crashed"
                    /\ calls' = calls \o add_calls
                    /\ UNCHANGED <<env, commits>>
               ELSE IF ~added.value
               THEN /\ pc' = "Failed to add files"
                    /\ calls' = calls \o add_calls
                    /\ UNCHANGED <<env, commits>>
               ELSE \E c \in CommandRuns :
                   LET committed == commit(final_message, c) IN
                   /\ calls' = calls \o add_calls
                                 \o Issued("928", "commit", committed.cmds, <<c>>)
                   /\ IF committed.raised # ""
                      THEN pc' = "crashed" /\ UNCHANGED <<env, commits>>
                      ELSE IF committed.value
                      THEN /\ pc' = "rerun"
                           /\ env' = [env EXCEPT !.ai_message = <<>>]
                           /\ commits' = Append(commits, [message |-> final_message])
                      ELSE /\ pc' = "Failed to create commit"
                           /\ UNCHANGED <<env, commits>>
    /\ UNCHANGED <<categorized, changelog, ran, raw_commits, parsed_commits,
                   git_stdout, history, today, args_version, model,
                   ai_response, result, exit_status, out_file, printed,
                   guiVars>>

\* The changelog tool later reads the commit: the first line of its message
\* is the subject of its log line, which parse_commits parses.
ParseFirstLine ==
    /\ pc = "rerun"
    /\ "parse_commits" \notin ran
    /\ raw_commits' =
           [i \in 1..Len(commits) |->
               Join(<<<<"h">>, <<"D">>, <<"Al">>,
                      Split(commits[i].message, "\n", -1)[1]>>, "|")]
    /\ parsed_commits' = parse_commits(raw_commits')
    /\ ran' = ran \cup {"parse_commits"}
    /\ UNCHANGED <<commits, categorized, changelog, git_stdout, history, today,
                   args_version, cliVars, guiVars>>

NextCommit ==
    \/ ClickCommit
    \/ ParseFirstLine

SpecCommit == InitCommit /\ [][NextCommit]_vars

-----------------------------------------------------------------------------
(* Claims about the categorizer and the basic renderer (under Spec) *)

Range(seq) == {seq[i] : i \in 1..Len(seq)}

\* The eleven known tags, as the claims list them.
KnownTags ==
    {"feat", "fix", "chore", "refactor", "docs", "style", "test", "perf",
     "ci", "build", "revert"}

AllBuckets == KnownTags \cup {"other"}

\* The bucket a record belongs to, stated from the claims: its type when
\* that is a known tag, 'other' for any other or missing type.
ExpectedBucket(c) ==
    IF "type" \in DOMAIN c /\ c.type \in KnownTags THEN c.type ELSE "other"

Categorized == "categorize_commits" \in ran

Rendered == "generate_basic_changelog" \in ran

\* C1: categorize_commits partitions its input: there are exactly 12
\* buckets, their sizes sum to the number of input records, every record is
\* in the buckets as many times as in the input, no record sits in two
\* buckets, and no bucket holds a record that was not in the input.
C1_Partition ==
    Categorized =>
        /\ DOMAIN categorized = AllBuckets
        /\ Cardinality(DOMAIN categorized) = 12
        /\ SumOver([k \in AllBuckets |-> Len(categorized[k])], AllBuckets)
               = Len(commits)
        /\ \A r \in Range(commits) :
               /\ SumOver([k \in AllBuckets |-> Count(categorized[k], r)],
                          AllBuckets) = Count(commits, r)
               /\ Cardinality({k \in AllBuckets :
                                  r \in Range(categorized[k])}) = 1
        /\ \A k \in AllBuckets : Range(categorized[k]) \subseteq Range(commits)

\* C1 witness: two records were categorized, one of an unknown type and one
\* without any type.
C1_Witness ==
    /\ Categorized
    /\ Len(commits) = 2
    /\ "type" \notin DOMAIN commits[1]
    /\ "type" \in DOMAIN commits[2] /\ commits[2].type = "weird"
    /\ Len(categorized["other"]) = 2

\* C2: every record that carries a type is routed by it: to the bucket of
\* its type when the type is one of the eleven known tags, to 'other' when
\* it is anything else ('weird', '', 'other').
C2_RoutedByType ==
    Categorized =>
        \A i \in 1..Len(commits) :
            "type" \in DOMAIN commits[i] =>
                LET t == commits[i].type
                    b == IF t \in KnownTags THEN t ELSE "other"
                IN  /\ commits[i] \in Range(categorized[b])
                    /\ \A k \in AllBuckets \ {b} :
                           commits[i] \notin Range(categorized[k])

\* C2 witness: a feat record and a 'weird' record give
\* {feat: [commit0], other: [commit1]}.
C2_Witness ==
    /\ Categorized
    /\ Len(commits) = 2
    /\ GetType(commits[1]) = "feat" /\ "type" \in DOMAIN commits[1]
    /\ "type" \in DOMAIN commits[2] /\ commits[2].type = "weird"
    /\ categorized["feat"] = <<commits[1]>>
    /\ categorized["other"] = <<commits[2]>>

\* C3: categorization is stable: every bucket is exactly the subsequence of
\* the input made of the records that belong to it, in input order.
C3_Stable ==
    Categorized =>
        \A k \in AllBuckets :
            categorized[k] = SelectSeq(commits, LAMBDA c : ExpectedBucket(c) = k)

\* C3 witness: two different records landed in the same bucket, in input
\* order.
C3_Witness ==
    /\ Categorized
    /\ Len(commits) = 2
    /\ commits[1] # commits[2]
    /\ \E k \in AllBuckets : categorized[k] = <<commits[1], commits[2]>>

\* The title of a bucket's section.
SectionTitle(k) == IF k = "other" THEN OtherTitle ELSE category_titles[k]

HasSection(k) == \E i \in 1..Len(changelog) : changelog[i] = <<SectionTitle(k)>>

SectionAt(k) == CHOOSE i \in 1..Len(changelog) : changelog[i] = <<SectionTitle(k)>>

NonEmptyCategory(k) == \E i \in 1..Len(commits) : ExpectedBucket(commits[i]) = k

\* Sections follow `order`: of two non-empty categories, the one earlier in
\* `order` has its section first.
SectionsFollow(order) ==
    LET present == {i \in 1..Len(order) : NonEmptyCategory(order[i])} IN
    \A i, j \in present :
        i < j =>
            /\ HasSection(order[i])
            /\ HasSection(order[j])
            /\ SectionAt(order[i]) < SectionAt(order[j])

\* The category order of the data model, as the specification lists it.
DataModelOrder ==
    <<"feat", "fix", "chore", "refactor", "docs", "style", "test", "perf",
      "ci", "build", "revert", "other">>

\* The order in which the renderer emits its sections.
RendererOrder ==
    <<"feat", "fix", "perf", "refactor", "docs", "style", "test", "chore",
      "ci", "build", "revert", "other">>

\* C9 as stated: the sections of the basic changelog appear in the category
\* order of the data model (features, fixes, chores, refactors, docs, style,
\* tests, performance, CI, build, reverts, other).
C9_DataModelOrder == Rendered => SectionsFollow(DataModelOrder)

\* C9 amended: the sections of the basic changelog appear in the fixed
\* order features, fixes, performance, refactors, docs, style, tests,
\* chores, CI, build, reverts, other.
C9_RendererOrder == Rendered => SectionsFollow(RendererOrder)

\* C9 witness: a chore commit and a perf commit were rendered, and the
\* Performance section comes before the Chores section.
C9_Witness ==
    /\ Rendered
    /\ NonEmptyCategory("chore")
    /\ NonEmptyCategory("perf")
    /\ HasSection("chore") /\ HasSection("perf")
    /\ SectionAt("perf") < SectionAt("chore")

\* C10: the basic changelog holds the section header of a category if and
\* only if some input commit is routed to that category; an empty commit
\* list gives the header line (and the blank line after it) and no section.
C10_NoEmptySection ==
    Rendered =>
        /\ \A k \in AllBuckets : HasSection(k) <=> NonEmptyCategory(k)
        /\ commits = <<>> =>
               /\ Len(changelog) = 2
               /\ changelog[1] \in {HeaderLine(v, today) : v \in Versions}
               /\ changelog[2] = BlankLine

\* C10 witness: two commits of one category were rendered: one section
\* header is in the output and the eleven others are not.
C10_Witness ==
    /\ Rendered
    /\ Len(commits) = 2
    /\ Cardinality({k \in AllBuckets : NonEmptyCategory(k)}) = 1
    /\ Cardinality({k \in AllBuckets : HasSection(k)}) = 1

\* The bullet line of a commit, as the claims give it.
BulletOf(c) == <<"- ", c.message, " ([", c.hash, "]) by ", c.author>>

IsBullet(line) == line # <<>> /\ line[1] = "- "

\* The input commits that belong to bucket k, in input order.
BucketCommits(k) == SelectSeq(commits, LAMBDA c : ExpectedBucket(c) = k)

\* C11: the basic changelog lists every input commit exactly once: it has
\* exactly as many bullet lines as input commits; under the title of every
\* non-empty bucket stand the bullets '- {message} ([{hash}]) by {author}'
\* of that bucket's commits, in bucket order, then exactly one blank line.
C11_EveryCommitOnce ==
    Rendered =>
        /\ Cardinality({i \in 1..Len(changelog) : IsBullet(changelog[i])})
               = Len(commits)
        /\ \A k \in AllBuckets :
               NonEmptyCategory(k) =>
                   LET b == BucketCommits(k)
                       s == SectionAt(k)
                       e == s + Len(b) + 1
                   IN  /\ HasSection(k)
                       /\ e <= Len(changelog)
                       /\ \A j \in 1..Len(b) : changelog[s + j] = BulletOf(b[j])
                       /\ changelog[e] = BlankLine
                       /\ e < Len(changelog) => changelog[e + 1] # BlankLine

\* C11 witness: two different commits of one bucket were rendered as two
\* bullets under one title, the last line being the blank line.
C11_Witness ==
    /\ Rendered
    /\ Len(commits) = 2
    /\ commits[1].hash # commits[2].hash
    /\ ExpectedBucket(commits[1]) = ExpectedBucket(commits[2])
    /\ Len(changelog) = 6
    /\ changelog[4] = BulletOf(commits[1])
    /\ changelog[5] = BulletOf(commits[2])
    /\ changelog[6] = BlankLine

\* The example of the claim: one feat commit rendered with a version gives
\* the header, a blank line, the Features title, one bullet, a blank line.
OneFeatExample ==
    (Len(commits) = 1 /\ ExpectedBucket(commits[1]) = "feat") =>
        /\ Len(changelog) = 5
        /\ changelog[3] = <<"### Features">>
        /\ changelog[4] = BulletOf(commits[1])

\* C12 as stated: the first line names the version whenever a version
\* string is supplied, and 'Unreleased' only when none is supplied.
C12_VersionWheneverSupplied ==
    Rendered =>
        /\ changelog[1] =
               IF args_version # NoVersion
               THEN <<"## [", args_version, "] - ", today>>
               ELSE <<"## Unreleased - ", today>>
        /\ OneFeatExample

\* C12 amended: the first line names the version whenever a non-empty
\* version string is supplied, and 'Unreleased' when none or the empty
\* string is supplied.
C12_VersionWhenNonEmpty ==
    Rendered =>
        /\ changelog[1] =
               IF args_version \notin {NoVersion, ""}
               THEN <<"## [", args_version, "] - ", today>>
               ELSE <<"## Unreleased - ", today>>
        /\ OneFeatExample

\* C12 witness: one feat commit was rendered with version '1.2.0'.
C12_Witness ==
    /\ Rendered
    /\ args_version = "1.2.0"
    /\ Len(commits) = 1 /\ ExpectedBucket(commits[1]) = "feat"
    /\ changelog[1] = <<"## [", "1.2.0", "] - ", today>>
    /\ changelog[3] = <<"### Features">>

-----------------------------------------------------------------------------
(* Claims about the two commit parsers (under SpecParse) *)

Parsed == "parse_commits" \in ran

HistoryRead == "get_commit_history" \in ran

\* The number of '|' in a line; a line splits into one field more.
NumDelims(line) == Count(line, "|")

\* A line with at least 4 fields (short form) / 5 fields (long form).
ValidShort(line) == NumDelims(line) >= 3

ValidLong(line) == NumDelims(line) >= 4

NoDelim(field) == \A i \in 1..Len(field) : field[i] # "|"

\* The lines get_commit_history iterates over.
HistoryInput == StdoutLines(Join(git_stdout, "\n"))

\* The lines with enough fields, in input order: one per record.
ShortSources == SelectSeq(raw_commits, ValidShort)

LongSources == SelectSeq(HistoryInput, ValidLong)

\* The subject field of a line with enough fields.
ShortSubject(line) == Split(line, "|", 3)[4]

LongSubject(line) == Split(line, "|", 5)[5]

\* a occurs in b as a run of consecutive characters.
OccursIn(a, b) ==
    \E i \in 1..(Len(b) + 1) :
        /\ i + Len(a) - 1 <= Len(b)
        /\ a = SubSeq(b, i, i + Len(a) - 1)

TaggedAt(m, k) ==
    /\ 2 <= k /\ k + 1 <= Len(m)
    /\ m[1] = "[" /\ m[k] = "]" /\ m[k + 1] = " "
    /\ \A j \in 2..(k - 1) : m[j] \notin {"[", "]"}

TagOf(m, k) == SubSeq(m, 2, k - 1)

RestOf(m, k) == SubSeq(m, k + 2, Len(m))

\* x.lower(), stated for the claims.
LowerCased(x) == [i \in 1..Len(x) |-> IF x[i] = "Feat" THEN "feat" ELSE x[i]]

\* C5 as stated: for every subject '[' + xyz + '] ' + rest (xyz free of
\* brackets), the record of either parser has type xyz lower-cased and a
\* subject equal to rest.
C5_TagStripped ==
    /\ Parsed =>
        \A i \in 1..Len(parsed_commits) :
            LET m == ShortSubject(ShortSources[i]) IN
            \A k \in 1..Len(m) :
                TaggedAt(m, k) =>
                    /\ parsed_commits[i].type = LowerCased(TagOf(m, k))
                    /\ parsed_commits[i].message = RestOf(m, k)
    /\ HistoryRead =>
        \A i \in 1..Len(history) :
            LET m == LongSubject(LongSources[i]) IN
            \A k \in 1..Len(m) :
                TaggedAt(m, k) =>
                    /\ history[i].type = LowerCased(TagOf(m, k))
                    /\ history[i].subject = RestOf(m, k)

NoLeadingTag(m) == ~StartsWith(m, "[") \/ (\A i \in 1..Len(m) : m[i] # "]")

\* C6: a subject without a well-formed leading tag (no leading '[', or a
\* leading '[' and no ']') gives, in either parser, a record of type 'other'
\* whose subject is the input subject.
C6_NoTagUnchanged ==
    /\ Parsed =>
        \A i \in 1..Len(parsed_commits) :
            LET m == ShortSubject(ShortSources[i]) IN
            NoLeadingTag(m) =>
                /\ parsed_commits[i].type = <<"other">>
                /\ parsed_commits[i].message = m
    /\ HistoryRead =>
        \A i \in 1..Len(history) :
            LET m == LongSubject(LongSources[i]) IN
            NoLeadingTag(m) =>
                /\ history[i].type = <<"other">>
                /\ history[i].subject = m

\* C6 witness: both parsers read the subject ' [Feat' (a leading blank and an
\* unclosed bracket) and kept it, with type 'other'.
C6_Witness ==
    /\ Parsed /\ HistoryRead
    /\ Len(parsed_commits) = 1 /\ Len(history) = 1
    /\ parsed_commits[1].message = <<" ", "[", "Feat">>
    /\ parsed_commits[1].type = <<"other">>
    /\ history[1].subject = <<" ", "[", "Feat">>
    /\ history[1].type = <<"other">>

ClosedTypes == {<<k>> : k \in KnownTags \cup {"other"}}

\* C7 as stated: the type of every record of either parser is one of the
\* eleven known tags or 'other'.
C7_ClosedTypeSet ==
    /\ Parsed => \A i \in 1..Len(parsed_commits) :
                     parsed_commits[i].type \in ClosedTypes
    /\ HistoryRead => \A i \in 1..Len(history) :
                     history[i].type \in ClosedTypes

\* The text between the leading '[' of m and its first ']'.
BracketText(m) == SubSeq(m, 2, (CHOOSE k \in 1..Len(m) :
                                   m[k] = "]" /\ \A j \in 1..(k - 1) : m[j] # "]") - 1)

\* The type is 'other', or the lower-cased bracket text of the subject.
TypeFromSubject(type, m) ==
    \/ type = <<"other">>
    \/ /\ ~NoLeadingTag(m)
       /\ type = LowerCased(BracketText(m))

\* C7 amended: the type of every record of either parser is 'other' or the
\* lower-cased text between the subject's leading '[' and its first ']':
\* one of the eleven known tags when that text is one, and any other text
\* kept as it is.
C7_TypeFromTag ==
    /\ Parsed =>
        \A i \in 1..Len(parsed_commits) :
            TypeFromSubject(parsed_commits[i].type,
                            ShortSubject(ShortSources[i]))
    /\ HistoryRead =>
        \A i \in 1..Len(history) :
            TypeFromSubject(history[i].type, LongSubject(LongSources[i]))

\* C7 witness: both parsers read the subject '[FeatFeat]' and kept the
\* unknown tag, lower-cased, as the type.
C7_Witness ==
    /\ Parsed /\ HistoryRead
    /\ Len(parsed_commits) = 1 /\ Len(history) = 1
    /\ history[1].subject = <<"[", "Feat", "Feat", "]">>
    /\ parsed_commits[1].type = <<"feat", "feat">>
    /\ history[1].type = <<"feat", "feat">>

\* C8: lines with too few fields give no record and leave the records of
\* the other lines as they are: the result is what the lines with enough
\* fields give alone, and it is empty when there is no such line.
C8_ShortLinesDropped ==
    /\ Parsed =>
        /\ parsed_commits = parse_commits(ShortSources)
        /\ ShortSources = <<>> => parsed_commits = <<>>
    /\ HistoryRead =>
        /\ \E lenient \in BOOLEAN :
               history = HistoryLoop(LongSources, today, lenient)
        /\ LongSources = <<>> => history = <<>>

\* C8 witness: a line with too few fields came before a well-formed line,
\* and the one record is that of the well-formed line.
C8_Witness ==
    /\ Parsed
    /\ Len(raw_commits) = 2
    /\ ~ValidShort(raw_commits[1])
    /\ raw_commits[1] # <<>>
    /\ ValidShort(raw_commits[2])
    /\ Len(parsed_commits) = 1
    /\ parsed_commits[1].hash = <<"h">>
    /\ parsed_commits[1].message = <<"x">>


-----------------------------------------------------------------------------
(* Claims about generate_ai_changelog (under SpecAI) *)

AiReturned == "generate_ai_changelog" \in ran

\* The AI failed: there is no model, or the generate_content call that was
\* made raised or gave a response without readable text.
AiFailed == model = "None" \/ ai_response.kind \in {"raises", "malformed"}

FellBack ==
    /\ ~result.raised
    /\ result.text = generate_basic_changelog(commits, args_version, today)

\* C14 as stated: for every commit list and version, when the AI failed,
\* generate_ai_changelog raises nothing and returns exactly the text of
\* generate_basic_changelog for the same commits and version.
C14_AnyFailureFallsBack == (AiReturned /\ AiFailed) => FellBack

\* C14 amended: the same for every non-empty commit list; for the empty
\* list generate_ai_changelog raises nothing, calls nothing and returns
\* 'No commits found for the specified period.'.
C14_FailureFallsBackNonEmpty ==
    AiReturned =>
        /\ (AiFailed /\ commits # <<>>) => FellBack
        /\ commits = <<>> =>
               /\ ~result.raised
               /\ ~result.called
               /\ result.text = NoCommitsText

\* C14 witness: with a model, a generate_content call on two commits raised
\* and the basic changelog of version 1.2.0 was returned.
C14_Witness ==
    /\ AiReturned
    /\ model = "GenerativeModel"
    /\ Len(commits) = 2
    /\ calls # <<>>
    /\ ai_response.kind = "raises"
    /\ args_version = "1.2.0"
    /\ result.text # <<>>
    /\ result.text[1] = <<"## [", "1.2.0", "] - ", today>>

-----------------------------------------------------------------------------
(* Claims about a run of the changelog tool (under SpecMain) *)

Exited == pc = "exited"

\* The run got as far as printing or saving a changelog.
Delivered == Exited /\ changelog # <<>>

\* The AI collaborator is disabled or unavailable: --no-ai, the package
\* cannot be imported, or GEMINI_API_KEY is unset.
AiOff == env.no_ai \/ ~env.GEMINI_AVAILABLE \/ env.GEMINI_API_KEY = "None"

\* `text` starts with the lines of `head`.
BeginsWith(text, head) ==
    Len(text) >= Len(head) /\ SubSeq(text, 1, Len(head)) = head

\* C15: when the AI is disabled or unavailable, generate_content is never
\* called during the run, and the changelog that is printed (--print-only)
\* or handed to the file is exactly the basic renderer's output for the
\* parsed commits.
C15_NoAiCallWhenOff ==
    AiOff =>
        /\ \A i \in 1..Len(calls) : calls[i].cmd # "generate_content"
        /\ Delivered =>
               LET basic == generate_basic_changelog(parsed_commits,
                                                     args_version, today)
               IN  /\ changelog = basic
                   /\ env.print_only => printed = basic
                   /\ (~env.print_only /\ printed # <<>>) =>
                          BeginsWith(out_file, basic)

\* C15 witness: a run with --no-ai, the package and a key at hand, saved the
\* changelog of two commits in front of the old file content.
C15_Witness ==
    /\ Delivered
    /\ env.no_ai /\ env.GEMINI_AVAILABLE /\ env.GEMINI_API_KEY = "key"
    /\ ~env.print_only
    /\ Len(parsed_commits) = 2
    /\ printed # <<>>
    /\ Len(out_file) > Len(changelog)
    /\ Len(calls) = 1 /\ calls[1].cmd = "git log"

\* C16: the tool exits with code 1 if and only if it is not run inside a
\* repository; every other run ends with exit code 0.
C16_ExitOneIffNoRepository ==
    Exited =>
        /\ exit_status.code = 1 <=> ~env.git_dir
        /\ exit_status.code \in {0, 1}

-----------------------------------------------------------------------------
(* Claims about the git queries (under SpecGit) *)

Returned == op \in ran

\* A git subprocess of the query exited non-zero: calls lists the commands
\* the query ran, git_runs what each did.
GitFailed ==
    \E i \in 1..Len(calls) : git_runs[i].kind = "exit non-zero"

\* C17 as stated: every git query returns its empty value when the git
\* subprocess exits non-zero, and raises nothing to its caller.
C17_EmptyOnAnyFailure ==
    (Returned /\ GitFailed) =>
        /\ returned.raised = ""
        /\ returned.value = <<>>

\* C17 amended: every git query raises nothing when a git subprocess exits
\* non-zero, and returns its empty value; except that get_author_stats,
\* once git shortlog has exited 0, keeps every author in its list, with 0
\* lines added and removed for an author whose git log exits non-zero.
C17_EmptyOnQueryFailure ==
    (Returned /\ GitFailed) =>
        /\ returned.raised = ""
        /\ IF op = "get_author_stats" /\ git_runs[1].kind = "exit 0"
           THEN /\ Len(returned.value) = Len(calls) - 1
                /\ \A i \in 1..Len(returned.value) :
                       git_runs[1 + i].kind = "exit non-zero" =>
                           /\ returned.value[i].lines_added = 0
                           /\ returned.value[i].lines_removed = 0
           ELSE returned.value = <<>>

\* C17 witness: get_author_stats has returned two authors; the git log of
\* the first exited non-zero, that of the second printed its numstat.
C17_Witness ==
    /\ Returned
    /\ op = "get_author_stats"
    /\ Len(calls) = 3
    /\ git_runs[2].kind = "exit non-zero"
    /\ git_runs[3].kind = "exit 0"
    /\ Len(returned.value) = 2
    /\ returned.value[1].lines_added = 0
    /\ returned.value[2].lines_added = 15
    /\ returned.value[2].lines_removed = 1

\* The lines of the output that are not blank.
OutputLines ==
    SelectSeq(Split(git_runs[1].stdout, "\n", -1), LAMBDA l : Strip(l) # <<>>)

\* A record's date for a date field: the wall clock for a field that is no
\* date, the date for a plain date, and for git's iso date (which only some
\* interpreters read) the one or the other.
DateFor(d, field) ==
    IF field = <<"x">> THEN d.date = today /\ d.time = "now"
    ELSE IF field = <<"D">> THEN d.date = "D" /\ d.time = "midnight"
    ELSE \/ d.date = "D" /\ d.time = "t"
         \/ d.date = today /\ d.time = "now"

\* C19: in get_commit_history and get_branch_info a line whose date cannot
\* be parsed still yields its record, dated with the wall clock, and every
\* line of the output has its record, in order, with its own fields.
C19_BadDateKeepsRecord ==
    (/\ Returned
     /\ op \in {"get_commit_history", "get_branch_info"}
     /\ git_runs[1].kind = "exit 0") =>
        /\ returned.raised = ""
        /\ Len(returned.value) = Len(OutputLines)
        /\ \A i \in 1..Len(OutputLines) :
               LET rec == returned.value[i] IN
               IF op = "get_commit_history"
               THEN LET f == Split(OutputLines[i], "|", 5) IN
                    /\ rec.hash = f[1]
                    /\ rec.author = f[2]
                    /\ rec.email = f[3]
                    /\ DateFor(rec.date, f[4])
                    /\ rec.subject = f[5]
               ELSE LET f == Split(OutputLines[i], "|", 3) IN
                    /\ rec.name = f[1]
                    /\ DateFor(rec.last_commit_date, f[2])
                    /\ rec.last_author = f[3]
                    /\ rec.last_subject = f[4]

\* C19 witness: get_branch_info read a line that has no date and then a
\* line with a date: two records, the first dated now, the second as read.
C19_Witness ==
    /\ Returned
    /\ op = "get_branch_info"
    /\ Len(returned.value) = 2
    /\ Split(OutputLines[1], "|", 3)[2] = <<"x">>
    /\ returned.value[1].last_commit_date.date = today
    /\ returned.value[2].last_commit_date.date = "D"
    /\ returned.value[2].is_remote

\* How often the log names path p.
TimesChanged(p) == Count(OutputLines, p)

\* C20: get_file_change_stats returns at most 20 entries, in non-increasing
\* order of change count; the count of an entry is the number of log lines
\* naming its path, and fewer than 20 paths of the log are named more often.
C20_TopTwenty ==
    (Returned /\ op = "get_file_change_stats") =>
        LET v == returned.value IN
        /\ Len(v) <= 20
        /\ \A i \in 1..(Len(v) - 1) : v[i].changes >= v[i + 1].changes
        /\ \A i \in 1..Len(v) :
               /\ v[i].changes = TimesChanged(v[i].filename)
               /\ v[i].changes > 0
               /\ Cardinality({q \in Range(OutputLines) :
                                  TimesChanged(q) > v[i].changes}) < 20

\* C20 witness: the log names more than 20 paths, all of them on disk:
\* 20 entries are returned, the first changed more often than the last.
C20_Witness ==
    /\ Returned
    /\ op = "get_file_change_stats"
    /\ Cardinality(Range(OutputLines)) > 20
    /\ Len(returned.value) = 20
    /\ returned.value[1].changes > returned.value[20].changes
-----------------------------------------------------------------------------
(* Claims about the external calls (under SpecAction) *)

\* The calls i and j were issued by one invocation of an operation.
SameInvocation(i, j) ==
    calls[i].at = calls[j].at /\ calls[i].by = calls[j].by

\* C18 as stated: within a run of the changelog tool or of the commit tab
\* (or within one git query), after an external call has failed or returned
\* nothing, no operation issues that call again.
C18_NoCallIssuedAgain ==
    \A i, j \in 1..Len(calls) :
        (i < j /\ calls[i].outcome \in {"failed", "nothing"}) =>
            calls[j].cmd # calls[i].cmd

\* C18 amended: an invocation of an operation issues no external call
\* twice, whatever the call gave; a run of the commit tab can invoke
\* several operations that issue the same git command.
C18_OncePerInvocation ==
    \A i, j \in 1..Len(calls) :
        (i < j /\ SameInvocation(i, j)) => calls[j].cmd # calls[i].cmd

\* C18 witness: the commit tab is rendered; get_git_diff at line 829 ran
\* the staged and the unstaged diff, both printed nothing, and the diff
\* preview at line 945 ran the staged diff again.
C18_Witness ==
    /\ pc = "rendered"
    /\ \E i, j, k \in 1..Len(calls) :
           /\ i < j /\ j < k
           /\ calls[i].at = "829" /\ calls[j].at = "829" /\ calls[k].at = "945"
           /\ calls[i].cmd = "git diff --cached"
           /\ calls[j].cmd = "git diff"
           /\ calls[i].outcome = "nothing" /\ calls[j].outcome = "nothing"
           /\ calls[k].cmd = calls[i].cmd

-----------------------------------------------------------------------------
(* Claims about the statistics of the dashboard (under SpecGit) *)

\* The paths that are surely among the top 20: at most 20 paths of the log
\* are named as often or more often.
SurelyTop ==
    {p \in Range(OutputLines) :
        Cardinality({q \in Range(OutputLines) :
                        TimesChanged(q) >= TimesChanged(p)}) <= 20}

\* C21: get_file_change_stats returns min(20, number of distinct paths)
\* entries, and a top path that is no longer on disk has an entry with its
\* change count and size_bytes 0.
C21_MissingFileHasEntry ==
    (Returned /\ op = "get_file_change_stats" /\ git_runs[1].kind = "exit 0") =>
        LET v == returned.value
            paths == Cardinality(Range(OutputLines))
        IN  /\ Len(v) = IF paths < 20 THEN paths ELSE 20
            /\ \A p \in SurelyTop :
                   Found(disk)[p].kind = "missing" =>
                       \E i \in 1..Len(v) :
                           /\ v[i].filename = p
                           /\ v[i].changes = TimesChanged(p)
                           /\ v[i].size_bytes = 0

\* The commits of the repository whose author is exactly `name`.
CommitsOf(name) == {i \in 1..Len(commits) : commits[i].author = name}

\* C22 (under SpecRepo): every entry of get_author_stats counts the commits
\* whose author is exactly its author string, and sums the lines added and
\* removed over exactly those commits.
C22_ExactAuthorGrouping ==
    (Returned /\ op = "get_author_stats") =>
        \A k \in 1..Len(returned.value) :
            LET e == returned.value[k]
                own == CommitsOf(e.author)
            IN  /\ e.commits = Cardinality(own)
                /\ e.lines_added =
                       SumOver([i \in 1..Len(commits) |-> commits[i].added], own)
                /\ e.lines_removed =
                       SumOver([i \in 1..Len(commits) |-> commits[i].removed], own)

-----------------------------------------------------------------------------
(* Claims about the credential file (under SpecKey) *)

\* The non-blank lines of a file (none for a file that is not there).
FileLines(file) ==
    IF file = NoFile THEN <<>>
    ELSE SelectSeq(Split(file, "\n", -1), LAMBDA l : l # <<>>)

\* The lines that are not the entry of the key itself.
OtherLines(file) ==
    SelectSeq(FileLines(file), LAMBDA l : Head(l) # KeyName)

\* C24: a save of the key K that succeeded leaves the file with the entry
\* GEMINI_API_KEY=K (once), with every other line as it was, and saving K
\* again would leave the file as it is.
C24_SaveKeepsOtherLines ==
    \A i \in 1..Len(saves) :
        LET s == saves[i] IN
        s.ok =>
            /\ Count(FileLines(s.after), <<KeyName>> \o s.with) = 1
            /\ \A l \in Range(FileLines(s.after)) :
                   Head(l) = KeyName => l = <<KeyName>> \o s.with
            /\ OtherLines(s.after) = OtherLines(s.before)
            /\ UpdateKey(s.with, s.after) = s.after

-----------------------------------------------------------------------------
(* Claims about save_changelog (under SpecSave) *)

\* The contents of the first k saves, the newest first, with '\n\n' between
\* two of them.
RECURSIVE NewestFirst(_)
NewestFirst(k) ==
    IF k = 1 THEN saves[1].with
    ELSE saves[k].with \o <<BlankLine>> \o NewestFirst(k - 1)

\* C27: after successful saves with append=True that began with no file,
\* the file holds their contents verbatim, the newest first; a successful
\* save with append=False, or when no file is there, leaves exactly its
\* content.
C27_NewestFirstVerbatim ==
    /\ ( /\ saves # <<>>
         /\ saves[1].before = NoFile
         /\ \A i \in 1..Len(saves) : saves[i].ok /\ saves[i].by = "append" )
           => out_file = NewestFirst(Len(saves))
    /\ \A i \in 1..Len(saves) :
           (saves[i].ok /\ (saves[i].by = "overwrite" \/ saves[i].before = NoFile))
               => saves[i].after = saves[i].with

-----------------------------------------------------------------------------
(* Claims about concurrent updates of one file (under SpecSessions) *)

\* Both sessions have written and closed the file.
BothDone == \A s \in Sessions : sessions.of[s].pc = "done"

\* The file after one session alone updates the file `file`.
Alone(with, file) ==
    IF sessions.kind = "save_changelog"
    THEN with \o <<BlankLine>> \o ReadText(file)
    ELSE UpdateKey(with, file)

\* The file after session f, then session l, each from its read to its
\* close with the other one not running.
Serial(f, l) ==
    Alone(sessions.of[l].with, Alone(sessions.of[f].with, sessions.original))

\* The session that wrote last read the file before the other one had
\* written it: it read the original content, or the file the other one had
\* just emptied.
LastReadEarly ==
    /\ BothDone
    /\ sessions.of[saves[2].by].read # ReadBy(sessions.kind, saves[1].after)

\* C23: no lock is taken: once two sessions have updated the same existing
\* file, the file is the update of what the last writer had read; when it
\* had read the file before the other session wrote it (for the credential
\* save: while the other had the file emptied), the file holds nothing of
\* the other session's update and is the result of neither serial order.
C23_UnlockedUpdateIsLost ==
    BothDone =>
        LET l == sessions.of[saves[2].by]
            f == sessions.of[saves[1].by]
        IN  /\ SharedFile = Alone(l.with, l.read)
            /\ ( /\ LastReadEarly
                 /\ \/ sessions.kind = "save_changelog"
                    \/ l.read = Emptied(sessions.kind) )
                   => /\ SharedFile \notin {Serial(1, 2), Serial(2, 1)}
                      /\ ~Contains(SharedFile, f.with)

\* Two changelog entries were prepended to the same file, both sessions
\* read the original file, and the file lacks the entry written first.
C23_Witness ==
    /\ LastReadEarly
    /\ sessions.kind = "save_changelog"
    /\ sessions.of[saves[2].by].read = sessions.original
    /\ SharedFile \notin {Serial(1, 2), Serial(2, 1)}
    /\ ~Contains(SharedFile, sessions.of[saves[1].by].with)

-----------------------------------------------------------------------------
(* Claims about the status parser (under SpecGit) *)

\* The non-blank lines of a porcelain output, as printed.
PorcelainLines(stdout) ==
    LET lines == Split(stdout, "\n", -1) IN
    Flatten([i \in 1..Len(lines) |->
                IF Strip(lines[i]) # <<>> THEN <<lines[i]>> ELSE <<>>])

\* C25: get_git_status returns one entry per non-blank line of the
\* porcelain output, in order: the status is the line's first two
\* characters and the filename the text from the fourth character on, also
\* for a first line whose status starts with a space.
C25_PorcelainLinesIntact ==
    ( /\ op = "get_git_status"
      /\ returned # NotReturned
      /\ git_runs[1].kind = "exit 0" )
        => LET lines == PorcelainLines(git_runs[1].stdout)
           IN  returned.value =
                   [i \in 1..Len(lines) |->
                       [status |-> SubSeq(lines[i], 1, 2),
                        filename |-> SubSeq(lines[i], 4, Len(lines[i]))]]

-----------------------------------------------------------------------------
(* Claims about the agreement of the two commit parsers (under SpecParse) *)

\* C26: when both parsers have read a line with the same subject, the type
\* of the record of parse_commits equals the type of the record of
\* get_commit_history.
C26_ParsersAgreeOnType ==
    ( /\ Parsed /\ HistoryRead
      /\ Len(parsed_commits) = 1 /\ Len(history) = 1
      /\ ShortSubject(raw_commits[1]) = history[1].subject )
        => parsed_commits[1].type = history[1].type

-----------------------------------------------------------------------------
(* Claims about the "Commit Changes" button (under SpecCommit) *)

\* The handler of the button has run.
Clicked == pc # "button"

\* C28: git commit is invoked only with a selection and a non-blank message
\* and right after an add_files of the same click that did not fail; after
\* a failed add_files no commit is invoked; the stored AI message changes
\* only by being cleared, after a commit that did not fail, the last call
\* of the click.
C28_CommitOnlyAfterStaging ==
    /\ \A i \in 1..Len(calls) :
           calls[i].by = "commit"
               => /\ env.selected_files # NoFiles
                  /\ Strip(env.commit_message) # <<>>
                  /\ i > 1
                  /\ calls[i - 1].by = "add_files"
                  /\ calls[i - 1].at = "914"
                  /\ calls[i - 1].outcome # "failed"
    /\ (\E j \in 1..Len(calls) :
            calls[j].by = "add_files" /\ calls[j].outcome = "failed")
           => \A i \in 1..Len(calls) : calls[i].by # "commit"
    /\ env.ai_message # env.default_message
           => /\ env.ai_message = <<>>
              /\ calls # <<>>
              /\ calls[Len(calls)].by = "commit"
              /\ calls[Len(calls)].outcome # "failed"

\* A commit succeeded after its files were staged, and the stored AI
\* message was cleared.
C28_Witness ==
    /\ Clicked
    /\ Len(calls) = 2
    /\ calls[1].by = "add_files" /\ calls[1].outcome # "failed"
    /\ calls[2].by = "commit" /\ calls[2].outcome # "failed"
    /\ env.default_message = <<"x">>
    /\ env.ai_message = <<>>

\* The first line of a message.
FirstLine(m) == Split(m, "\n", -1)[1]

\* The commit of the click has been read by parse_commits, and a type was
\* selected.
TypedCommitParsed == Parsed /\ pc = "rerun" /\ env.commit_type # "none"

\* C29 as stated: for every selected type other than 'none' and every
\* message, the record parse_commits gives for the first line of the
\* committed message has the selected type, and its message is the first
\* line of the typed message without its surrounding whitespace.
C29_TagRoundTrip ==
    TypedCommitParsed
        => /\ Len(parsed_commits) = 1
           /\ parsed_commits[1].type = <<env.commit_type>>
           /\ parsed_commits[1].message = Strip(FirstLine(env.commit_message))

\* The dashboard takes the message as one that has a prefix: its stripped
\* text starts with '[' and it contains ']'.
TakenAsTagged(m) ==
    /\ Strip(m) # <<>>
    /\ Strip(m)[1] = "["
    /\ \E i \in 1..Len(m) : m[i] = "]"

\* C29 amended: the round trip holds for every message the dashboard does
\* not take as one that has a prefix; a message it takes as one that has a
\* prefix is committed unchanged.
C29_TagRoundTripUnlessTagged ==
    TypedCommitParsed
        => IF TakenAsTagged(env.commit_message)
           THEN commits[1].message = env.commit_message
           ELSE /\ Len(parsed_commits) = 1
                /\ parsed_commits[1].type = <<env.commit_type>>
                /\ parsed_commits[1].message =
                       Strip(FirstLine(env.commit_message))

\* The type 'fix' and the message ' x' were committed as '[fix]  x' and
\* parsed as type 'fix' with the message 'x'.
C29_Witness ==
    /\ TypedCommitParsed
    /\ env.commit_type = "fix"
    /\ env.commit_message = <<" ", "x">>
    /\ commits[1].message = <<"[", "fix", "]", " ", " ", "x">>
    /\ parsed_commits[1].type = <<"fix">>
    /\ parsed_commits[1].message = <<"x">>

-----------------------------------------------------------------------------
(* Claims about the output file of a run of the changelog tool (under SpecMain) *)

\* C30: a run changes the output file at most once, and only inside a
\* repository, without --print-only and with at least one commit parsed
\* from the git log; in every other run the file is left as it was.
C30_WrittenOnlyWithCommits ==
    /\ Len(saves) <= 1
    /\ \A i \in 1..Len(saves) :
           /\ out_file = saves[i].after
           /\ saves[i].after # saves[i].before
                  => /\ env.git_dir
                     /\ ~env.print_only
                     /\ parsed_commits # <<>>

====
